---- MODULE Spec2Model ----
(***************************************************************************)
(* Chunked file upload over one TCP connection: the four client variants   *)
(* of the repository (clientSingleThread, clientAsync1, clientAsync2,      *)
(* pureAsync) as one state machine, and the frame codec as a second one.   *)
(*                                                                         *)
(* The server is an external collaborator. Its nominal behaviour is to     *)
(* accept the login and issue a token, to answer SAVE with a plan for the  *)
(* requested key, and to acknowledge every UPLOAD with status 200, putting *)
(* md5 in the response to the block that completes the file, with nothing  *)
(* timing out. Everything else it or the transport may do (stay silent,    *)
(* answer late, answer 4xx, send md5 early or not at all, rewrite the key, *)
(* issue no token, break a send) is a fault; a run has at most MaxFaults.  *)
(***************************************************************************)
EXTENDS Integers, Sequences, FiniteSets, TLC

\* ---------------------------------------------------------------- bounds
MaxSize == 2          \* file sizes 0..MaxSize bytes
MaxConc == 2          \* max_concurrent_uploads entered by the user: 1..MaxConc
MaxFaults == 3        \* departures from the nominal exchange in one run
MaxLogins == 2        \* cap on the unbounded login loop of main
MaxFields == 1        \* fields of a metadata record given to pack_message
MaxText == 1          \* characters of a string value in a metadata record
MaxPayload == 2       \* bytes of a binary payload given to pack_message
MaxFile == 5          \* file sizes, block sizes given to the block readers
MaxDigestFile == 16385 \* sizes of the files whose digest is computed
MaxCut == 23          \* bytes of a frame that arrive before the peer closes: 0..MaxCut

\* ------------------------------------------------------ program constants
max_retries == 3
md5_block_size == 8192
test_block_size == 4096
SENTINEL == "YeWenjie"
Variants == {"single", "async1", "async2", "pure"}
Blocks == 0 .. (MaxSize - 1)

\* ------------------------------------------------------------- variables
VARIABLES
  variant,        \* which client runs
  maxc,           \* max_concurrent_uploads
  quiet,          \* the server has stopped answering UPLOAD requests for good
  bare,           \* the server may answer with metadata that has no status field
  mainpc,         \* position of main / the public operation in progress
  sockOpen,       \* the client's socket is open
  token,          \* AuthenticationService.token
  logins,         \* login attempts made so far
  file_size, file_key, total_blocks, block_size,   \* FileTransferService fields
  save_response,  \* the response to SAVE as the server sent it
  cur,            \* next block index of the block generator / block loop
  attempt,        \* attempt[i]: sends tried so far for block i
  naps,           \* naps[i]: backoff sleeps made between the attempts of block i
  tpc,            \* tpc[i]: position of the upload task of block i
  tres,           \* tres[i]: what upload_block returned for block i
  upload_tasks,   \* clientAsync1: the list upload_tasks (as a set of blocks)
  socket_lock,    \* clientAsync1: the task that holds socket_lock, or -1
  md5_response,   \* the md5-bearing response kept by the engine
  outcome,        \* what the completion handler reported
  result,         \* what the upload operation returned to main
  exhausted,      \* blocks whose attempts all failed
  sent,           \* every request frame the client put on the wire, in order
  at4xx,          \* Len(sent) when a 4xx UPLOAD response was first read, or -1
  atMd5,          \* Len(sent) when an md5 UPLOAD response was first read, or -1
  atLogin4xx,     \* Len(sent) when a 4xx LOGIN response was first read, or -1
  login_response, \* the response to the last LOGIN as received, or NoLogin
  rto,            \* rto[i]: reads of a response for block i that timed out
  r4xx,           \* r4xx[i]: Len(sent) when a 4xx response was read for block i, or -1
  atBad,          \* Len(sent) when a frame with malformed metadata was first read, or -1
  faults,         \* departures from the nominal exchange so far
  inbox,          \* response frames the server emitted, not yet read
  srvGot,         \* block indices the server has received
  pk_json,        \* codec: the json_data given to pack_message
  pk_none,        \* codec: pack_message was given no bin_data (None)
  pk_bin,         \* codec: the bin_data given to pack_message
  wire,           \* codec: what the peer puts on the wire around the frame
  cut,            \* codec: bytes of the frame sent before the peer closes ("cut")
  stream,         \* codec: bytes on the socket that recv has not returned yet
  header,         \* codec: unpack_message's header buffer
  json_data,      \* codec: unpack_message's json_data buffer
  bin_data,       \* codec: unpack_message's bin_data buffer
  upc,            \* codec: position of pack_message / unpack_message
  unpacked,       \* codec: what unpack_message returned
  split,          \* codec: some recv returned fewer bytes than it was asked for
  rd_kind,        \* reader: the file is read through mmap or through aiofiles
  rd_size,        \* reader: file_size given to the block reader
  rd_bs,          \* reader: block_size given to the block reader
  rd_total,       \* reader: total_blocks given to the block reader
  rd_idx,         \* reader: block_idx of the for loop
  rd_out,         \* reader: the byte ranges of the blocks yielded so far
  rd_pc,          \* reader: position of the block reader
  sm_args,        \* builder: the arguments send_message was called with
  message         \* builder: the message send_message built, or NoMessage

engineVars == <<variant, maxc, quiet, bare, mainpc, sockOpen, token, logins,
                file_size, file_key, total_blocks, block_size, save_response,
                cur, attempt, naps,
                tpc, tres, upload_tasks, socket_lock, md5_response, outcome, result,
                exhausted, sent, at4xx, atMd5, atLogin4xx, login_response, rto, r4xx,
                atBad, faults,
                inbox,
                srvGot>>

codecVars == <<pk_json, pk_none, pk_bin, wire, cut, stream, header, json_data,
               bin_data, upc, unpacked, split>>

readerVars == <<rd_kind, rd_size, rd_bs, rd_total, rd_idx, rd_out, rd_pc>>

builderVars == <<sm_args, message>>

vars == <<engineVars, codecVars, readerVars, builderVars>>

\* --------------------------------------------------------------- helpers
Min(a, b) == IF a < b THEN a ELSE b

\* The server's plan: total_block = ceil(size / block_size).
CeilDiv(a, b) == (a + b - 1) \div b

\* The digest calculate_local_md5 returns for the file (hexdigest: lower
\* case hex), the same value spelled in upper case hex, and another value.
LocalMd5 == "d1"
Md5Values == {"d1", "D1", "d2"}

Token == "T"
NoToken == "None"
ReqKey == "f"
Keys == {"f", "f_1"}

\* A response frame: status, md5 ("none" when the key is absent) and, for
\* the record only, the block whose UPLOAD request the server answered.
\* ok is FALSE for a complete frame whose metadata does not parse.
Frame(st, m, i) == [status |-> st, md5 |-> m, for |-> i, ok |-> TRUE]

\* response.get(FIELD_STATUS) of a response that has other fields but no
\* status: None. And the status noted for a response whose metadata is the
\* empty object {}, which has no field at all and is falsy in `if not
\* response`.
NoStatus == -1
NoFields == -2
Bare(st) == st \in {NoStatus, NoFields}
EmptyObject(i) == Frame(NoFields, "none", i)
NoFrame == Frame(0, "none", -1)
Malformed(i) == [status |-> 0, md5 |-> "none", for |-> i, ok |-> FALSE]

\* The response to LOGIN: status and token (NoToken when the field is absent).
LoginResponse(st, tk) == [status |-> st, token |-> tk]
NoLogin == LoginResponse(0, NoToken)

\* The response to SAVE: status, key, total_block, block_size.
Plan(st, k, tb, bs) == [status |-> st, key |-> k, total_block |-> tb, block_size |-> bs]
NoPlan == Plan(0, "", 0, 0)

\* A request frame: operation, block_index (-1 when absent), payload length
\* (for SAVE: the size field), key and token.
Sent(o, i, l, k, t) == [op |-> o, idx |-> i, len |-> l, key |-> k, token |-> t]

\* ErrorHandler.check_error: the status codes that are fatal.
IsClientError(status_code) == 400 <= status_code /\ status_code < 500

\* read_blocks_single_thread / async_read_blocks / read_blocks_fast:
\* the position the reader seeks to for block_idx.
SeekPosNext(bs, block_idx) == (block_idx + 1) * bs
SeekPos(bs, block_idx) == block_idx * bs

\* The block readers: chunk_size = min(block_size, remaining).
ReadSizeRemaining(size, bs, block_idx) == size - block_idx * bs
ReadSize(size, bs, block_idx) == Min(bs, size - block_idx * bs)

\* f.read(n) at position pos of a file of size bytes: how many bytes it
\* returns (all that is left when n is negative, nothing past the end).
FileRead(size, pos, n) ==
  LET left == IF size > pos THEN size - pos ELSE 0
  IN  IF n < 0 THEN left ELSE Min(n, left)

\* The length of the data the block readers yield for block_idx.
ChunkLen(size, bs, block_idx) ==
  FileRead(size, SeekPos(bs, block_idx), ReadSize(size, bs, block_idx))

\* A retransmission that finds its buffer consumed and sends no bytes.
ChunkSizeRetryEmpty(block_idx) ==
  IF attempt[block_idx] = 0 THEN ChunkLen(file_size, block_size, block_idx)
  ELSE 0

\* The length of the data read for block_idx of the file being uploaded.
ChunkSize(block_idx) == ChunkLen(file_size, block_size, block_idx)

\* An UPLOAD request of block i that leaves the token out.
UploadReqNoToken(i) == Sent("UPLOAD", i, ChunkSize(i), file_key, NoToken)

\* An UPLOAD request of block i under the key that was asked for in SAVE.
UploadReqAskedKey(i) == Sent("UPLOAD", i, ChunkSize(i), ReqKey, token)

\* An UPLOAD request of block i that always carries some token.
UploadReqSomeToken(i) == Sent("UPLOAD", i, ChunkSize(i), file_key, Token)

\* The UPLOAD request of block i as send_message builds it.
UploadReq(i) == Sent("UPLOAD", i, ChunkSize(i), file_key, token)

\* The frame a nominal server sends in reply to the UPLOAD of block i: an
\* acknowledgement, with the digest when the file is complete.
NominalReply(i) ==
  Frame(200, IF srvGot \cup {i} = 0 .. (total_blocks - 1)
             THEN LocalMd5 ELSE "none", i)

\* What the server may put on the wire in reply to the UPLOAD of block i:
\* a sequence of zero or one frame.
ServerReplies(i) ==
  IF quiet THEN {<<>>}
  ELSE IF bare
  THEN {<<>>, <<NominalReply(i)>>, <<EmptyObject(i)>>,
        <<Frame(NoStatus, "none", i)>>, <<Frame(NoStatus, LocalMd5, i)>>}
  ELSE {<<>>, <<Frame(404, "none", i)>>, <<Frame(200, "none", i)>>, <<Malformed(i)>>}
       \cup {<<Frame(200, m, i)>> : m \in Md5Values}

\* How sendall / drain may end: done, timed out, or a transport error.
SendOutcomes == {"ok", "timeout", "reset"}

\* How the read of a response may end when inb is what the server emitted:
\* a frame is decoded, or unpack_message returns (None, None) (timeout,
\* closed stream).
ReadOutcomes(inb) == IF inb = <<>> THEN {"none"} ELSE {"frame", "none"}

\* The faults of one turn for block i: the send raised; or the server did
\* not send the nominal reply, and the read gave up on a frame that was on
\* its way.
FaultsOf(i, so, rep, ro) ==
  IF so # "ok" THEN 1
  ELSE (IF ~quiet /\ rep # <<NominalReply(i)>> THEN 1 ELSE 0)
       + (IF ro = "none" /\ inbox \o rep # <<>> THEN 1 ELSE 0)

\* The markers after frame fr was read as the response to an UPLOAD, the
\* requests sent so far being snt.
Mark4xx(fr, snt) ==
  IF at4xx = -1 /\ IsClientError(fr.status) THEN Len(snt) ELSE at4xx
MarkMd5(fr, snt) ==
  IF atMd5 = -1 /\ fr.md5 # "none" THEN Len(snt) ELSE atMd5
MarkBad(fr, snt) ==
  IF atBad = -1 /\ ~fr.ok THEN Len(snt) ELSE atBad
Mark4xxOf(i, fr, snt) ==
  IF IsClientError(fr.status) THEN [r4xx EXCEPT ![i] = Len(snt)] ELSE r4xx

\* Facing a server that never answers, the record kept of the requests of
\* block i (the request log, the count of timed out reads) stops growing
\* once it holds one request more than the retry ceiling allows: further
\* rounds of a retry loop leave the state as it is.
LogFull(i) ==
  /\ quiet
  /\ Cardinality({n \in 1 .. Len(sent) :
                    sent[n].op = "UPLOAD" /\ sent[n].idx = i}) > max_retries

\* One send-then-receive turn for block i on the connection.
\* kind: "ok" a frame was decoded, "none" no response (nothing arrived in
\* time, or a frame arrived whose metadata does not parse: unpack_message
\* returns (None, None) for both; or the metadata is the empty object,
\* which `if not response` takes for no response), "timeout"/"reset" the
\* send raised.
Turn(i, so, rep, ro) ==
  IF so # "ok"
  THEN [kind |-> so, frame |-> NoFrame, sent |-> sent, inbox |-> inbox,
        got |-> srvGot, at4xx |-> at4xx, atMd5 |-> atMd5, rto |-> rto,
        r4xx |-> r4xx, atBad |-> atBad]
  ELSE LET snt == IF LogFull(i) THEN sent ELSE Append(sent, UploadReq(i))
           in1 == inbox \o rep
       IN  IF ro = "frame" /\ Head(in1).ok /\ Head(in1).status # NoFields
           THEN [kind |-> "ok", frame |-> Head(in1), sent |-> snt,
                 inbox |-> Tail(in1), got |-> srvGot \cup {i},
                 at4xx |-> Mark4xx(Head(in1), snt),
                 atMd5 |-> MarkMd5(Head(in1), snt), rto |-> rto,
                 r4xx |-> Mark4xxOf(i, Head(in1), snt), atBad |-> atBad]
           ELSE IF ro = "frame"
           THEN [kind |-> "none", frame |-> NoFrame, sent |-> snt,
                 inbox |-> Tail(in1), got |-> srvGot \cup {i},
                 at4xx |-> at4xx, atMd5 |-> atMd5, rto |-> rto,
                 r4xx |-> r4xx, atBad |-> MarkBad(Head(in1), snt)]
           ELSE [kind |-> "none", frame |-> NoFrame, sent |-> snt,
                 inbox |-> in1, got |-> srvGot \cup {i},
                 at4xx |-> at4xx, atMd5 |-> atMd5,
                 rto |-> [rto EXCEPT ![i] = IF LogFull(i) THEN @ ELSE @ + 1],
                 r4xx |-> r4xx, atBad |-> atBad]

\* The variables a turn t changes on the connection.
ApplyTurn(t, cost) ==
  /\ faults + cost <= MaxFaults
  /\ faults' = faults + cost
  /\ sent' = t.sent
  /\ inbox' = t.inbox
  /\ srvGot' = t.got
  /\ at4xx' = t.at4xx
  /\ atMd5' = t.atMd5
  /\ rto' = t.rto
  /\ r4xx' = t.r4xx
  /\ atBad' = t.atBad

\* A completion report that compares digests whether or not one arrived.
CompletionAlwaysCompares(md5r) ==
  IF md5r # NoFrame /\ LocalMd5 = md5r.md5 THEN "verified" ELSE "mismatch"

\* _handle_upload_completion / the md5 branch of
\* _upload_blocks_from_generator.
Completion(md5r) ==
  IF md5r # NoFrame /\ md5r.md5 # "none"
  THEN IF LocalMd5 = md5r.md5 THEN "verified" ELSE "mismatch"
  ELSE "unverified"

\* ------------------------------------------------------------------ Init
EngineStart ==
  /\ variant \in Variants
  /\ maxc \in IF variant \in {"async1", "pure"} THEN 1 .. MaxConc ELSE {1}
  /\ mainpc = "login"
  /\ sockOpen = TRUE
  /\ token = NoToken
  /\ logins = 0
  /\ file_size = 0 /\ file_key = "" /\ total_blocks = 0 /\ block_size = 0
  /\ save_response = NoPlan
  /\ cur = 0
  /\ attempt = [i \in Blocks |-> 0]
  /\ naps = [i \in Blocks |-> 0]
  /\ tpc = [i \in Blocks |-> "new"]
  /\ tres = [i \in Blocks |-> NoFrame]
  /\ upload_tasks = {}
  /\ socket_lock = -1
  /\ md5_response = NoFrame
  /\ outcome = "none"
  /\ result = "none"
  /\ exhausted = {}
  /\ sent = <<>>
  /\ at4xx = -1 /\ atMd5 = -1 /\ atLogin4xx = -1 /\ atBad = -1
  /\ login_response = NoLogin
  /\ rto = [i \in Blocks |-> 0]
  /\ r4xx = [i \in Blocks |-> -1]
  /\ faults = 0
  /\ inbox = <<>>
  /\ srvGot = {}

\* The client at its start, facing a server that answers UPLOAD requests.
EngineInit == EngineStart /\ quiet = FALSE /\ bare = FALSE

\* What unpack_message returns on failure: (None, None).
NoneNone == [ok |-> FALSE, meta |-> {}, bin |-> <<>>]

\* The codec machine is not in use while the client engine is observed.
CodecIdle ==
  /\ pk_json = <<>> /\ pk_none = TRUE /\ pk_bin = <<>>
  /\ wire = "exact" /\ cut = 0
  /\ stream = <<>> /\ header = <<>> /\ json_data = <<>> /\ bin_data = <<>>
  /\ upc = "off"
  /\ unpacked = NoneNone
  /\ split = FALSE

\* No block reader is observed while the client engine is.
ReaderIdle ==
  /\ rd_kind = "mmap" /\ rd_size = 0 /\ rd_bs = 0 /\ rd_total = 0
  /\ rd_idx = 0 /\ rd_out = <<>> /\ rd_pc = "off"

\* No call of send_message is observed.
NoMessage == [k \in {} |-> ""]
BuilderIdle == sm_args = NoMessage /\ message = NoMessage

Init == EngineInit /\ CodecIdle /\ ReaderIdle /\ BuilderIdle

\* ------------------------------------------------- session: login, plan
planVars == <<file_size, file_key, total_blocks, block_size, save_response>>
taskVars == <<cur, attempt, naps, tpc, tres, upload_tasks, md5_response, exhausted>>
netVars  == <<inbox, srvGot>>
markVars == <<at4xx, atMd5, rto, r4xx, atBad>>

\* An exception nobody catches ends the process.
Crash ==
  /\ mainpc' = "crashed"
  /\ sockOpen' = FALSE

\* A check_error that reports the error and lets the client carry on with
\* the transfer.
ExitCarriesOn ==
  /\ mainpc' = "transfer"
  /\ sockOpen' = sockOpen

\* ErrorHandler.check_error of the socket clients: close the socket, exit.
Exit ==
  /\ mainpc' = "exited"
  /\ sockOpen' = FALSE

\* How a login or SAVE exchange may end: the send raised ("reset"), no
\* response frame came ("none"), or a frame with this status was decoded.
\* (st = 0 stands for no frame.)
Exchanges ==
  {[so |-> "reset", st |-> 0], [so |-> "ok", st |-> 0],
   [so |-> "ok", st |-> 200], [so |-> "ok", st |-> 401]}
\* With a server that may leave the status out, a frame may also come
\* with other fields but no status (NoStatus) or with no field (NoFields).
ExchangesSeen ==
  IF bare
  THEN Exchanges \cup {[so |-> "ok", st |-> NoStatus], [so |-> "ok", st |-> NoFields]}
  ELSE Exchanges
ExchangeFault(x) == IF x.so = "reset" \/ x.st # 200 THEN 1 ELSE 0

\* A sentinel branch that hands out a token and ends the login loop.
ThreeBodyLogsIn ==
  /\ sent' = Append(sent, Sent("EARTH", -1, 0, "", NoToken))
  /\ token' = Token
  /\ mainpc' = "file"
  /\ UNCHANGED <<sockOpen, atLogin4xx, login_response>>

\* login with the sentinel identity: sending_to_three_body puts its message
\* on the wire, whatever comes back is only printed, and login returns
\* False.
ThreeBody ==
  /\ sent' = Append(sent, Sent("EARTH", -1, 0, "", NoToken))
  /\ UNCHANGED <<mainpc, sockOpen, token, atLogin4xx, login_response>>

\* A login that lets the missing response escape as an exception.
LoginNoResponseRaises ==
  /\ login_response' = NoLogin
  /\ Crash
  /\ UNCHANGED <<token, atLogin4xx>>

\* login: if not response: print, return False.
LoginNoResponse ==
  /\ login_response' = NoLogin
  /\ UNCHANGED <<mainpc, sockOpen, token, atLogin4xx>>

\* AuthenticationService.login called from the login loop of main.
Login ==
  /\ mainpc = "login"
  /\ logins < MaxLogins
  /\ logins' = logins + 1
  /\ UNCHANGED <<codecVars, readerVars, builderVars, variant, maxc, quiet, bare, planVars, taskVars, netVars, markVars,
                 outcome, result, socket_lock>>
  /\ \E id \in {"u", SENTINEL}, x \in ExchangesSeen, tk \in {Token, NoToken} :
       LET cost == IF id = SENTINEL
                   THEN 1 + (IF x.so = "reset" THEN 1 ELSE 0)
                   ELSE ExchangeFault(x)
                        + (IF x.st = 200 /\ tk = NoToken THEN 1 ELSE 0)
       IN
       /\ x.st # 200 => tk = Token
       /\ faults + cost <= MaxFaults
       /\ faults' = faults + cost
       /\ IF id = SENTINEL
          THEN \* SendingToThreeBody (its send is in no try), return False
               IF x.so = "reset"
               THEN Crash /\ UNCHANGED <<token, sent, atLogin4xx, login_response>>
               ELSE ThreeBody
          ELSE IF x.so = "reset"
          THEN \* except Exception: return False
               UNCHANGED <<mainpc, sockOpen, token, sent, atLogin4xx,
                           login_response>>
          ELSE /\ sent' = Append(sent, Sent("LOGIN", -1, 0, "", NoToken))
               /\ IF x.st = 0
                  THEN LoginNoResponse
                  ELSE IF Bare(x.st)
                  THEN \* {}: if not response; no status: check_error
                       \* raises TypeError, except Exception: return False
                       /\ login_response' =
                            LoginResponse(x.st, IF x.st = NoFields THEN NoToken ELSE tk)
                       /\ UNCHANGED <<mainpc, sockOpen, token, atLogin4xx>>
                  ELSE IF IsClientError(x.st)
                  THEN /\ atLogin4xx' = IF atLogin4xx = -1 THEN Len(sent')
                                        ELSE atLogin4xx
                       /\ login_response' = LoginResponse(x.st, NoToken)
                       /\ token' = token
                       /\ IF variant = "pure"
                          THEN UNCHANGED <<mainpc, sockOpen>>
                          ELSE Exit
                  ELSE /\ login_response' = LoginResponse(x.st, tk)
                       /\ token' = tk
                       /\ mainpc' = "file"
                       /\ UNCHANGED <<sockOpen, atLogin4xx>>

\* main: the user enters q instead of a file path.
Quit ==
  /\ mainpc = "file"
  /\ mainpc' = "closing"
  /\ UNCHANGED <<codecVars, readerVars, builderVars, variant, maxc, quiet, bare, sockOpen, token, logins, planVars,
                 taskVars, netVars, markVars, atLogin4xx, login_response, socket_lock, faults, outcome,
                 result, sent>>

\* get_upload_plan, called by the upload operation of the client.
GetUploadPlan ==
  /\ mainpc = "file"
  /\ UNCHANGED <<codecVars, readerVars, builderVars, variant, maxc, quiet, bare, token, logins, taskVars, netVars,
                 markVars, atLogin4xx, login_response, socket_lock, outcome>>
  /\ \E size \in 0 .. MaxSize, x \in ExchangesSeen, k \in Keys, bs \in 1 .. MaxSize,
        tb \in 0 .. MaxSize :
       LET cost == ExchangeFault(x)
                   + (IF x.st = 200 /\ k # ReqKey THEN 1 ELSE 0)
                   + (IF x.st = 200 /\ tb # CeilDiv(size, bs) THEN 1 ELSE 0)
           save == Sent("SAVE", -1, size, ReqKey, token) IN
       /\ file_size' = size
       /\ IF variant = "single" /\ size = 0
          THEN /\ result' = "Failed"
               /\ mainpc' = "closing"
               /\ UNCHANGED <<sockOpen, sent, faults, file_key, total_blocks,
                              block_size, save_response>>
          ELSE /\ faults + cost <= MaxFaults
               /\ faults' = faults + cost
               /\ IF x.so = "reset"
                  THEN /\ Crash
                       /\ UNCHANGED <<result, sent, file_key, total_blocks,
                                      block_size, save_response>>
                  ELSE /\ sent' = Append(sent, save)
                       /\ IF x.st = 0
                          THEN /\ result' = "Failed"
                               /\ mainpc' = "closing"
                               /\ UNCHANGED <<sockOpen, file_key, total_blocks,
                                              block_size, save_response>>
                          ELSE IF x.st = NoFields
                          THEN \* {}: if not response: return False
                               /\ result' = "Failed"
                               /\ mainpc' = "closing"
                               /\ save_response' = Plan(x.st, "", 0, 0)
                               /\ UNCHANGED <<sockOpen, file_key, total_blocks,
                                              block_size>>
                          ELSE IF x.st = NoStatus
                          THEN \* check_error raises TypeError, uncaught
                               /\ Crash
                               /\ save_response' = Plan(x.st, k, tb, bs)
                               /\ UNCHANGED <<result, file_key, total_blocks,
                                              block_size>>
                          ELSE IF IsClientError(x.st)
                          THEN /\ UNCHANGED <<file_key, total_blocks, block_size>>
                               /\ save_response' = Plan(x.st, "", 0, 0)
                               /\ IF variant = "pure"
                                  THEN /\ result' = "Failed"
                                       /\ mainpc' = "closing"
                                       /\ sockOpen' = sockOpen
                                  ELSE Exit /\ result' = result
                          ELSE /\ save_response' = Plan(x.st, k, tb, bs)
                               /\ file_key' = k
                               /\ total_blocks' = tb
                               /\ block_size' = bs
                               /\ mainpc' = "transfer"
                               /\ UNCHANGED <<sockOpen, result>>

\* A close() without the finally clause: the socket is closed only when BYE
\* was sent.
CloseNoFinally ==
  /\ mainpc = "closing"
  /\ sockOpen
  /\ \E so \in {"ok", "reset"} :
       /\ faults + (IF so = "ok" THEN 0 ELSE 1) <= MaxFaults
       /\ faults' = faults + (IF so = "ok" THEN 0 ELSE 1)
       /\ sockOpen' = (so # "ok")
       /\ sent' = IF so = "ok" THEN Append(sent, Sent("BYE", -1, 0, "", token))
                  ELSE sent
  /\ mainpc' = "closed"
  /\ UNCHANGED <<codecVars, readerVars, builderVars, variant, maxc, quiet, bare, token, logins, planVars, taskVars,
                 netVars, markVars, atLogin4xx, login_response, socket_lock, outcome, result>>

\* close(): send BYE, then close the socket whatever happened.
Close ==
  /\ mainpc = "closing"
  /\ sockOpen
  /\ \E so \in {"ok", "reset"} :
       /\ faults + (IF so = "ok" THEN 0 ELSE 1) <= MaxFaults
       /\ faults' = faults + (IF so = "ok" THEN 0 ELSE 1)
       /\ sent' = IF so = "ok" THEN Append(sent, Sent("BYE", -1, 0, "", token))
                  ELSE sent
  /\ sockOpen' = FALSE
  /\ mainpc' = "closed"
  /\ UNCHANGED <<codecVars, readerVars, builderVars, variant, maxc, quiet, bare, token, logins, planVars, taskVars,
                 netVars, markVars, atLogin4xx, login_response, socket_lock, outcome, result>>

\* ------------------------------------------------ block transfer engines
\* An end of the engine that fails the upload operation on a digest mismatch.
FinishFailsOnMismatch(md5r) ==
  /\ outcome' = Completion(md5r)
  /\ result' = IF Completion(md5r) = "mismatch" THEN "Failed" ELSE "Success"
  /\ mainpc' = "closing"

\* The engine is over: the completion report, and the upload operation of
\* the client returns True.
Finish(md5r) ==
  /\ outcome' = Completion(md5r)
  /\ result' = "Success"
  /\ mainpc' = "closing"

\* time.sleep(1) / await asyncio.sleep(1) of the except clause: the backoff
\* made when the attempt a of block i is to be followed by another.
Nap(i, a) == IF a.done THEN naps ELSE [naps EXCEPT ![i] = @ + 1]

\* An attempt handler for which a 4xx response is one more failure to retry.
AfterAttemptRetries4xx(i, kind, frame) ==
  IF kind = "ok" /\ ~IsClientError(frame.status)
  THEN [done |-> TRUE, att |-> attempt[i], exh |-> FALSE, ret |-> frame]
  ELSE IF attempt[i] < max_retries - 1
  THEN [done |-> FALSE, att |-> attempt[i] + 1, exh |-> FALSE, ret |-> NoFrame]
  ELSE [done |-> TRUE, att |-> attempt[i], exh |-> TRUE, ret |-> NoFrame]

\* An attempt handler that takes a response without status for a success.
AfterAttemptNoStatusOk(i, kind, frame) ==
  IF kind = "ok"
  THEN [done |-> TRUE, att |-> attempt[i], exh |-> FALSE,
        ret |-> IF IsClientError(frame.status) THEN NoFrame ELSE frame]
  ELSE IF attempt[i] < max_retries - 1
  THEN [done |-> FALSE, att |-> attempt[i] + 1, exh |-> FALSE, ret |-> NoFrame]
  ELSE [done |-> TRUE, att |-> attempt[i], exh |-> TRUE, ret |-> NoFrame]

\* upload_block / _upload_block_sync after one attempt for block i that
\* ended kind ("ok": a frame was decoded; anything else: an exception was
\* raised; `400 <= status_code < 500` raises TypeError when the response
\* has no status): return a value (done) or sleep and try again.
AfterAttempt(i, kind, frame) ==
  IF kind = "ok" /\ frame.status # NoStatus
  THEN [done |-> TRUE, att |-> attempt[i], exh |-> FALSE,
        ret |-> IF IsClientError(frame.status) THEN NoFrame ELSE frame]
  ELSE IF attempt[i] < max_retries - 1
  THEN [done |-> FALSE, att |-> attempt[i] + 1, exh |-> FALSE, ret |-> NoFrame]
  ELSE [done |-> TRUE, att |-> attempt[i], exh |-> TRUE, ret |-> NoFrame]

\* clientSingleThread: one pass of the while True loop for block cur of
\* _upload_blocks_from_generator, and what follows it when it breaks.
SingleAttempt ==
  /\ variant = "single"
  /\ mainpc = "transfer"
  /\ cur < total_blocks
  /\ tpc[cur] = "new"
  /\ UNCHANGED <<codecVars, readerVars, builderVars, variant, maxc, quiet, bare, token, logins, planVars, attempt, naps,
                 upload_tasks, exhausted, atLogin4xx, login_response, socket_lock>>
  /\ IF SeekPos(block_size, cur) > file_size
     THEN \* the block generator raises (mmap seek out of range)
          /\ Crash
          /\ UNCHANGED <<cur, tpc, tres, md5_response, outcome, result, netVars,
                         markVars, faults, sent>>
     ELSE
     \E so \in SendOutcomes, rep \in ServerReplies(cur) :
     \E ro \in ReadOutcomes(inbox \o rep) :
       LET t == Turn(cur, so, rep, ro) IN
       /\ ApplyTurn(t, FaultsOf(cur, so, rep, ro))
       /\ tpc' = IF t.kind \in {"timeout", "none"}
                 THEN [tpc EXCEPT ![cur] = "retry"] ELSE tpc
       /\ IF t.kind = "reset"
          THEN \* not a socket.timeout: nothing catches it
               /\ Crash
               /\ UNCHANGED <<cur, tres, md5_response, outcome, result>>
          ELSE IF t.kind # "ok"
          THEN \* socket.timeout was raised: on to the except clause
               UNCHANGED <<mainpc, sockOpen, cur, tres, md5_response, outcome,
                           result>>
          ELSE IF t.frame.status = NoStatus
          THEN \* check_error compares None with 400: TypeError, uncaught
               /\ Crash
               /\ UNCHANGED <<cur, tres, md5_response, outcome, result>>
          ELSE IF IsClientError(t.frame.status)
          THEN /\ Exit
               /\ UNCHANGED <<cur, tres, md5_response, outcome, result>>
          ELSE /\ tres' = [tres EXCEPT ![cur] = t.frame]
               /\ sockOpen' = sockOpen
               /\ IF t.frame.md5 # "none"
                  THEN /\ md5_response' = t.frame
                       /\ cur' = cur
                       /\ Finish(t.frame)
                  ELSE /\ md5_response' = md5_response
                       /\ cur' = cur + 1
                       /\ IF cur + 1 = total_blocks
                          THEN Finish(NoFrame)
                          ELSE UNCHANGED <<mainpc, outcome, result>>

\* clientSingleThread: except socket.timeout of the while True loop: print,
\* update the progress bar, and go round again at once, for the same block.
SingleRetry ==
  /\ variant = "single"
  /\ mainpc = "transfer"
  /\ cur < total_blocks
  /\ tpc[cur] = "retry"
  /\ tpc' = [tpc EXCEPT ![cur] = "new"]
  /\ UNCHANGED <<codecVars, readerVars, builderVars, variant, maxc, quiet, bare, mainpc, sockOpen,
                 token, logins, planVars, cur, attempt, naps, tres, upload_tasks,
                 md5_response, exhausted, outcome, result, netVars, markVars,
                 atLogin4xx, login_response, socket_lock, faults, sent>>

\* clientSingleThread: the plan has no block, the for loop of
\* _upload_blocks_from_generator has nothing to do.
SingleNoBlock ==
  /\ variant = "single"
  /\ mainpc = "transfer"
  /\ total_blocks = 0
  /\ Finish(NoFrame)
  /\ UNCHANGED <<codecVars, readerVars, builderVars, variant, maxc, quiet, bare, sockOpen, token, logins, planVars,
                 taskVars, netVars, markVars, atLogin4xx, login_response, socket_lock, faults, sent>>

\* clientAsync2: one attempt of _upload_block_sync for block cur, inside the
\* for loop of upload_file_optimized.
Async2Attempt ==
  /\ variant = "async2"
  /\ mainpc = "transfer"
  /\ cur < total_blocks
  /\ md5_response = NoFrame
  /\ UNCHANGED <<codecVars, readerVars, builderVars, variant, maxc, quiet, bare, mainpc, sockOpen, token, logins, planVars,
                 tpc, upload_tasks, outcome, result, atLogin4xx, login_response, socket_lock>>
  /\ \E so \in SendOutcomes, rep \in ServerReplies(cur) :
     \E ro \in ReadOutcomes(inbox \o rep) :
       LET t == Turn(cur, so, rep, ro)
           a == AfterAttempt(cur, t.kind, t.frame)
       IN
       /\ ApplyTurn(t, FaultsOf(cur, so, rep, ro))
       /\ attempt' = [attempt EXCEPT ![cur] = a.att]
       /\ naps' = Nap(cur, a)
       /\ exhausted' = IF a.exh THEN exhausted \cup {cur} ELSE exhausted
       /\ tres' = [tres EXCEPT ![cur] = a.ret]
       /\ IF a.done /\ a.ret.md5 # "none"
          THEN md5_response' = a.ret /\ cur' = cur
          ELSE /\ md5_response' = md5_response
               /\ cur' = IF a.done THEN cur + 1 ELSE cur

\* clientAsync2: the loop of upload_file_optimized is over.
Async2Finish ==
  /\ variant = "async2"
  /\ mainpc = "transfer"
  /\ cur = total_blocks \/ md5_response # NoFrame
  /\ Finish(md5_response)
  /\ UNCHANGED <<codecVars, readerVars, builderVars, variant, maxc, quiet, bare, sockOpen, token, logins, planVars,
                 taskVars, netVars, markVars, atLogin4xx, login_response, socket_lock, faults, sent>>

\* Tasks start in the order they were created (the event loop's ready queue
\* is first-in first-out).
MayStart(i) == \A j \in Blocks : j < i => tpc[j] # "ready"

\* clientAsync1: one pass of the async for loop of upload_file_async.
A1Main ==
  /\ variant = "async1"
  /\ mainpc = "transfer"
  /\ UNCHANGED <<codecVars, readerVars, builderVars, variant, maxc, quiet, bare, sockOpen, token, logins, planVars,
                 attempt, naps, tres, exhausted, netVars, markVars, atLogin4xx, login_response, socket_lock,
                 faults, sent, outcome, result>>
  /\ IF cur = total_blocks
     THEN /\ mainpc' = "gather"
          /\ UNCHANGED <<cur, tpc, upload_tasks, md5_response>>
     ELSE LET full == Cardinality(upload_tasks) >= maxc
              done == IF full THEN {i \in upload_tasks : tpc[i] = "done"} ELSE {}
              withMd5 == {i \in done : tres[i] # NoFrame /\ tres[i].md5 # "none"}
          IN
          /\ full => done # {}
          /\ \E m \in IF withMd5 = {} THEN {md5_response}
                        ELSE {tres[i] : i \in withMd5} :
               /\ md5_response' = m
               /\ IF m # NoFrame
                  THEN /\ mainpc' = "gather"
                       /\ upload_tasks' = upload_tasks \ done
                       /\ UNCHANGED <<cur, tpc>>
                  ELSE /\ tpc' = [tpc EXCEPT ![cur] = "ready"]
                       /\ upload_tasks' = (upload_tasks \ done) \cup {cur}
                       /\ cur' = cur + 1
                       /\ mainpc' = mainpc

\* A lock that a task keeps while it sleeps before its next attempt.
LockHeldThroughSleep(i, a) == IF a.done THEN -1 ELSE i

\* clientAsync1: `with socket_lock:` is left, by the end of the block or by
\* an exception raised inside it, before the task of block i returns or
\* sleeps: the lock is free again.
LockAfterTurn(i, a) == -1

\* clientAsync1: one attempt of upload_block for block i: socket_lock is
\* acquired (the thread would block on a lock that is held), the send and
\* the receive are made under it with no suspension point in between.
A1Task(i) ==
  /\ variant = "async1"
  /\ mainpc \in {"transfer", "gather"}
  /\ \/ tpc[i] = "ready" /\ MayStart(i)
     \/ tpc[i] = "sleep"
  /\ UNCHANGED <<codecVars, readerVars, builderVars, variant, maxc, quiet, bare, mainpc, sockOpen, token, logins, planVars,
                 cur, upload_tasks, md5_response, outcome, result, atLogin4xx, login_response>>
  /\ socket_lock = -1
  /\ \E so \in SendOutcomes, rep \in ServerReplies(i) :
     \E ro \in ReadOutcomes(inbox \o rep) :
       LET t == Turn(i, so, rep, ro)
           a == AfterAttempt(i, t.kind, t.frame)
       IN
       /\ ApplyTurn(t, FaultsOf(i, so, rep, ro))
       /\ attempt' = [attempt EXCEPT ![i] = a.att]
       /\ naps' = Nap(i, a)
       /\ exhausted' = IF a.exh THEN exhausted \cup {i} ELSE exhausted
       /\ tres' = [tres EXCEPT ![i] = a.ret]
       /\ tpc' = [tpc EXCEPT ![i] = IF a.done THEN "done" ELSE "sleep"]
       /\ socket_lock' = LockAfterTurn(i, a)

\* A gather that reports only what it finds among the tasks left in
\* upload_tasks, forgetting the md5 response kept by the loop.
A1GatherForgets ==
  /\ variant = "async1"
  /\ mainpc = "gather"
  /\ \A i \in upload_tasks : tpc[i] = "done"
  /\ LET withMd5 == {i \in upload_tasks : tres[i] # NoFrame /\ tres[i].md5 # "none"}
     IN  \E m \in IF withMd5 = {} THEN {NoFrame}
                   ELSE {tres[i] : i \in withMd5} :
           /\ md5_response' = m
           /\ Finish(m)
  /\ UNCHANGED <<codecVars, readerVars, builderVars, variant, maxc, quiet, bare, sockOpen, token, logins, planVars, cur,
                 attempt, naps, tpc, tres, upload_tasks, exhausted, netVars,
                 markVars, atLogin4xx, login_response, socket_lock, faults, sent>>

\* clientAsync1: gather the tasks left in upload_tasks, look for md5 among
\* their results, report.
A1Gather ==
  /\ variant = "async1"
  /\ mainpc = "gather"
  /\ \A i \in upload_tasks : tpc[i] = "done"
  /\ LET withMd5 == {i \in upload_tasks : tres[i] # NoFrame /\ tres[i].md5 # "none"}
     IN  \E m \in IF withMd5 = {} THEN {md5_response}
                   ELSE {tres[i] : i \in withMd5} :
           /\ md5_response' = m
           /\ Finish(m)
  /\ UNCHANGED <<codecVars, readerVars, builderVars, variant, maxc, quiet, bare, sockOpen, token, logins, planVars, cur,
                 attempt, naps, tpc, tres, upload_tasks, exhausted, netVars,
                 markVars, atLogin4xx, login_response, socket_lock, faults, sent>>

\* pureAsync: one pass of the async for loop of upload_file_async, which
\* creates the task of every block.
PureMain ==
  /\ variant = "pure"
  /\ mainpc = "transfer"
  /\ IF cur = total_blocks
     THEN /\ mainpc' = "gather"
          /\ UNCHANGED <<cur, tpc>>
     ELSE /\ tpc' = [tpc EXCEPT ![cur] = "ready"]
          /\ cur' = cur + 1
          /\ mainpc' = mainpc
  /\ UNCHANGED <<codecVars, readerVars, builderVars, variant, maxc, quiet, bare, sockOpen, token, logins, planVars,
                 attempt, naps, tres, upload_tasks, md5_response, exhausted, netVars,
                 markVars, atLogin4xx, login_response, socket_lock, faults, sent, outcome, result>>

\* A semaphore that a task gives back while it sleeps between attempts.
HoldersAwake == {j \in Blocks : tpc[j] \in {"drain", "reading"}}

\* pureAsync: the tasks that hold the semaphore (inside async with).
Holders == {j \in Blocks : tpc[j] \in {"drain", "reading", "sleep"}}

\* pureAsync: the effect on the task of block i of an attempt that ended
\* kind with frame.
PureAfter(i, kind, frame) ==
  LET a == AfterAttempt(i, kind, frame) IN
  /\ attempt' = [attempt EXCEPT ![i] = a.att]
  /\ naps' = Nap(i, a)
  /\ exhausted' = IF a.exh THEN exhausted \cup {i} ELSE exhausted
  /\ tres' = [tres EXCEPT ![i] = a.ret]
  /\ tpc' = [tpc EXCEPT ![i] = IF a.done THEN "done" ELSE "sleep"]

\* pureAsync: upload_block of block i enters the semaphore (first attempt)
\* or wakes from the backoff sleep, and sends the UPLOAD request; it is
\* then suspended in drain / at the start of wait_for.
PureSend(i) ==
  /\ variant = "pure"
  /\ mainpc \in {"transfer", "gather"}
  /\ \/ tpc[i] = "ready" /\ MayStart(i) /\ Cardinality(Holders) < maxc
     \/ tpc[i] = "sleep"
  /\ UNCHANGED <<codecVars, readerVars, builderVars, variant, maxc, quiet, bare, mainpc, sockOpen, token, logins, planVars,
                 cur, upload_tasks, md5_response, outcome, result, markVars,
                 atLogin4xx, login_response, socket_lock>>
  /\ \E so \in SendOutcomes, rep \in ServerReplies(i) :
       LET cost == IF so # "ok" \/ (~quiet /\ rep # <<NominalReply(i)>>)
                   THEN 1 ELSE 0 IN
       /\ faults + cost <= MaxFaults
       /\ faults' = faults + cost
       /\ IF so = "ok"
          THEN /\ sent' = Append(sent, UploadReq(i))
               /\ inbox' = inbox \o rep
               /\ srvGot' = srvGot \cup {i}
               /\ tpc' = [tpc EXCEPT ![i] = "drain"]
               /\ UNCHANGED <<attempt, naps, exhausted, tres>>
          ELSE /\ PureAfter(i, so, NoFrame)
               /\ UNCHANGED <<sent, netVars>>

\* pureAsync: the task of block i decodes the frame at the head of the
\* stream.
PureTake(i) ==
  /\ inbox # <<>>
  /\ inbox' = Tail(inbox)
  /\ rto' = rto
  /\ atBad' = MarkBad(Head(inbox), sent)
  /\ IF Head(inbox).ok /\ Head(inbox).status # NoFields
     THEN /\ at4xx' = Mark4xx(Head(inbox), sent)
          /\ atMd5' = MarkMd5(Head(inbox), sent)
          /\ r4xx' = Mark4xxOf(i, Head(inbox), sent)
          /\ PureAfter(i, "ok", Head(inbox))
     ELSE \* the metadata does not parse: (None, None), or is {}
          /\ UNCHANGED <<at4xx, atMd5, r4xx>>
          /\ PureAfter(i, "none", NoFrame)

\* pureAsync: async_unpack_message starts for block i. A frame that has
\* arrived is decoded at once; with nothing buffered the task waits on the
\* reader, unless another task already waits there: then readexactly raises,
\* async_unpack_message returns (None, None) and the attempt has failed.
PureRead(i) ==
  /\ variant = "pure"
  /\ tpc[i] = "drain"
  /\ UNCHANGED <<codecVars, readerVars, builderVars, variant, maxc, quiet, bare, mainpc, sockOpen, token, logins, planVars,
                 cur, upload_tasks, md5_response, outcome, result, srvGot,
                 atLogin4xx, login_response, socket_lock, faults, sent>>
  /\ \/ PureTake(i)
     \/ /\ \A j \in Blocks : tpc[j] # "reading"
        /\ tpc' = [tpc EXCEPT ![i] = "reading"]
        /\ UNCHANGED <<attempt, naps, exhausted, tres, inbox, markVars>>
     \/ /\ \E j \in Blocks : tpc[j] = "reading"
        /\ PureAfter(i, "none", NoFrame)
        /\ UNCHANGED <<inbox, markVars>>

\* pureAsync: the frame the task of block i waits for arrives.
PureDeliver(i) ==
  /\ variant = "pure"
  /\ tpc[i] = "reading"
  /\ PureTake(i)
  /\ UNCHANGED <<codecVars, readerVars, builderVars, variant, maxc, quiet, bare, mainpc, sockOpen, token, logins, planVars,
                 cur, upload_tasks, md5_response, outcome, result, srvGot,
                 atLogin4xx, login_response, socket_lock, faults, sent>>

\* pureAsync: wait_for gives up on the read of block i after
\* RE_TRANSMISSION_TIME (or the stream ended): with nothing left to arrive,
\* or because the frame is late.
PureTimeout(i) ==
  /\ variant = "pure"
  /\ tpc[i] = "reading"
  /\ \/ inbox = <<>> /\ faults' = faults
     \/ inbox # <<>> /\ faults < MaxFaults /\ faults' = faults + 1
  /\ rto' = [rto EXCEPT ![i] = @ + 1]
  /\ PureAfter(i, "none", NoFrame)
  /\ UNCHANGED <<codecVars, readerVars, builderVars, variant, maxc, quiet, bare, mainpc, sockOpen, token, logins, planVars,
                 cur, upload_tasks, md5_response, outcome, result, netVars,
                 at4xx, atMd5, r4xx, atBad, atLogin4xx, login_response, socket_lock, sent>>

\* pureAsync: gather every task, take the first result with md5, report.
PureGather ==
  /\ variant = "pure"
  /\ mainpc = "gather"
  /\ \A i \in Blocks : tpc[i] \in {"new", "done"}
  /\ LET withMd5 == {i \in Blocks : tres[i] # NoFrame /\ tres[i].md5 # "none"}
         m == IF withMd5 = {} THEN NoFrame
              ELSE tres[CHOOSE i \in withMd5 : \A j \in withMd5 : i <= j]
     IN  /\ md5_response' = m
         /\ Finish(m)
  /\ UNCHANGED <<codecVars, readerVars, builderVars, variant, maxc, quiet, bare, sockOpen, token, logins, planVars, cur,
                 attempt, naps, tpc, tres, upload_tasks, exhausted, netVars,
                 markVars, atLogin4xx, login_response, socket_lock, faults, sent>>

\* ------------------------------------------------------- specification
Next ==
  \/ Login
  \/ Quit
  \/ GetUploadPlan
  \/ Close
  \/ SingleAttempt
  \/ SingleRetry
  \/ SingleNoBlock
  \/ Async2Attempt
  \/ Async2Finish
  \/ A1Main
  \/ \E i \in Blocks : A1Task(i)
  \/ A1Gather
  \/ PureMain
  \/ \E i \in Blocks : PureSend(i)
  \/ \E i \in Blocks : PureRead(i)
  \/ \E i \in Blocks : PureDeliver(i)
  \/ \E i \in Blocks : PureTimeout(i)
  \/ PureGather

Spec == Init /\ [][Next]_vars

\* ---------------------------------------------- the engine and a mute server
\* The client facing a server that answers LOGIN and SAVE but never an
\* UPLOAD request: every read of a block response times out. No frame ever
\* arrives, so PureDeliver has no part in it.
InitLive ==
  /\ EngineStart
  /\ quiet = TRUE /\ bare = FALSE
  /\ CodecIdle
  /\ ReaderIdle
  /\ BuilderIdle

NextLive ==
  \/ Login
  \/ Quit
  \/ GetUploadPlan
  \/ Close
  \/ SingleAttempt
  \/ SingleRetry
  \/ SingleNoBlock
  \/ Async2Attempt
  \/ Async2Finish
  \/ A1Main
  \/ \E i \in Blocks : A1Task(i)
  \/ A1Gather
  \/ PureMain
  \/ \E i \in Blocks : PureSend(i)
  \/ \E i \in Blocks : PureRead(i)
  \/ \E i \in Blocks : PureTimeout(i)
  \/ PureGather

\* The client process is never starved: the main thread and the event loop
\* run whatever step is ready, and every timeout set on a read expires.
\* The client facing a server that may leave the status field, or every
\* field, out of its responses.
InitBare ==
  /\ EngineStart /\ quiet = FALSE /\ bare = TRUE
  /\ CodecIdle /\ ReaderIdle /\ BuilderIdle

SpecBare == InitBare /\ [][Next]_vars

SpecLive == InitLive /\ [][NextLive]_vars /\ WF_vars(NextLive)

\* ------------------------------------------------------- the frame codec
\* Text is a sequence of Unicode code points, bytes are 0..255.
\* The characters of the strings in a metadata record: a, the double quote
\* and e-acute (two bytes in UTF-8).
Chars == {97, 34, 233}
\* The bytes of a payload: NUL and the byte of the closing brace.
PayloadBytes == {0, 125}

RECURSIVE SeqsUpTo(_, _)
SeqsUpTo(S, n) ==
  IF n = 0 THEN {<<>>}
  ELSE LET shorter == SeqsUpTo(S, n - 1)
       IN  shorter \cup {Append(q, x) : q \in shorter, x \in S}

\* A JSON value of a metadata record: a string, a number or null.
StrVal(t) == [t |-> "str", s |-> t, n |-> 0]
IntVal(k) == [t |-> "int", s |-> <<>>, n |-> k]
NullVal == [t |-> "null", s |-> <<>>, n |-> 0]
Values ==
  {StrVal(t) : t \in SeqsUpTo(Chars, MaxText)} \cup {IntVal(0), IntVal(200), NullVal}

\* The keys of a metadata record: k, and a key with a quote and e-acute.
FieldKeys == {<<107>>, <<34, 233>>}
Field(k, v) == [key |-> k, val |-> v]

\* The metadata records (dict, in insertion order, keys distinct).
Records ==
  {r \in SeqsUpTo({Field(k, v) : k \in FieldKeys, v \in Values}, MaxFields) :
     \A a, b \in 1 .. Len(r) : a # b => r[a].key # r[b].key}

\* A dict as a value: what == compares (the order of insertion is not part
\* of it; of two items with one key the later wins).
AsDict(items) ==
  {items[a] : a \in {b \in 1 .. Len(items) :
                       \A c \in (b + 1) .. Len(items) : items[c].key # items[b].key}}

\* json.dumps(.., ensure_ascii=False): py_encode_basestring of one character.
EscapeChar(c) ==
  IF c = 34 THEN <<92, 34>> ELSE IF c = 92 THEN <<92, 92>> ELSE <<c>>

RECURSIVE Escape(_)
Escape(t) == IF t = <<>> THEN <<>> ELSE EscapeChar(Head(t)) \o Escape(Tail(t))

RECURSIVE Digits(_)
Digits(k) == IF k < 10 THEN <<48 + k>> ELSE Digits(k \div 10) \o <<48 + (k % 10)>>

DumpStr(t) == <<34>> \o Escape(t) \o <<34>>

DumpVal(v) ==
  IF v.t = "str" THEN DumpStr(v.s)
  ELSE IF v.t = "int" THEN Digits(v.n)
  ELSE <<110, 117, 108, 108>>

\* The items of a dict, "key": value, separated by ", ".
RECURSIVE DumpItems(_)
DumpItems(items) ==
  IF items = <<>> THEN <<>>
  ELSE DumpStr(Head(items).key) \o <<58, 32>> \o DumpVal(Head(items).val)
       \o (IF Tail(items) = <<>> THEN <<>> ELSE <<44, 32>> \o DumpItems(Tail(items)))

\* json.dumps(json_data, ensure_ascii=False)
Dumps(items) == <<123>> \o DumpItems(items) \o <<125>>

\* str.encode(): UTF-8 of one code point (below 65536).
Utf8(c) ==
  IF c < 128 THEN <<c>>
  ELSE IF c < 2048 THEN <<192 + (c \div 64), 128 + (c % 64)>>
  ELSE <<224 + (c \div 4096), 128 + ((c \div 64) % 64), 128 + (c % 64)>>

RECURSIVE Encode(_)
Encode(t) == IF t = <<>> THEN <<>> ELSE Utf8(Head(t)) \o Encode(Tail(t))

\* bytes.decode(): strict UTF-8; ok is FALSE where it raises.
IsCont(bs, p) == p <= Len(bs) /\ bs[p] >= 128 /\ bs[p] < 192
RECURSIVE Decode(_, _, _)
Decode(bs, p, acc) ==
  IF p > Len(bs) THEN [ok |-> TRUE, text |-> acc]
  ELSE IF bs[p] < 128 THEN Decode(bs, p + 1, Append(acc, bs[p]))
  ELSE IF bs[p] >= 194 /\ bs[p] < 224 /\ IsCont(bs, p + 1)
  THEN Decode(bs, p + 2, Append(acc, (bs[p] - 192) * 64 + (bs[p + 1] - 128)))
  ELSE IF bs[p] >= 224 /\ bs[p] < 240 /\ IsCont(bs, p + 1) /\ IsCont(bs, p + 2)
  THEN Decode(bs, p + 3, Append(acc, (bs[p] - 224) * 4096
                                      + (bs[p + 1] - 128) * 64 + (bs[p + 2] - 128)))
  ELSE [ok |-> FALSE, text |-> <<>>]

\* json.loads: the scanner of the json module, for documents that are an
\* object of strings, numbers and null. ok is FALSE where it raises.
ScanFail == [ok |-> FALSE, pos |-> 0, text |-> <<>>, val |-> NullVal, items |-> <<>>]
Scanned(p, t, v, its) == [ok |-> TRUE, pos |-> p, text |-> t, val |-> v, items |-> its]

RECURSIVE SkipWs(_, _)
SkipWs(cs, p) ==
  IF p <= Len(cs) /\ cs[p] \in {32, 9, 10, 13} THEN SkipWs(cs, p + 1) ELSE p

At(cs, p, c) == p <= Len(cs) /\ cs[p] = c

\* scanstring, from the character after the opening quote.
RECURSIVE ScanString(_, _, _)
ScanString(cs, p, acc) ==
  IF p > Len(cs) THEN ScanFail
  ELSE IF cs[p] = 34 THEN Scanned(p + 1, acc, NullVal, <<>>)
  ELSE IF cs[p] = 92
  THEN IF p + 1 <= Len(cs) /\ cs[p + 1] \in {34, 92}
       THEN ScanString(cs, p + 2, Append(acc, cs[p + 1]))
       ELSE ScanFail
  ELSE IF cs[p] < 32 THEN ScanFail
  ELSE ScanString(cs, p + 1, Append(acc, cs[p]))

RECURSIVE ScanInt(_, _, _)
ScanInt(cs, p, acc) ==
  IF p <= Len(cs) /\ cs[p] >= 48 /\ cs[p] <= 57
  THEN ScanInt(cs, p + 1, acc * 10 + (cs[p] - 48))
  ELSE Scanned(p, <<>>, IntVal(acc), <<>>)

ScanValue(cs, p) ==
  IF p > Len(cs) THEN ScanFail
  ELSE IF cs[p] = 34
  THEN LET r == ScanString(cs, p + 1, <<>>)
       IN  IF r.ok THEN Scanned(r.pos, <<>>, StrVal(r.text), <<>>) ELSE ScanFail
  ELSE IF cs[p] >= 48 /\ cs[p] <= 57 THEN ScanInt(cs, p, 0)
  ELSE IF p + 3 <= Len(cs) /\ SubSeq(cs, p, p + 3) = <<110, 117, 108, 108>>
  THEN Scanned(p + 4, <<>>, NullVal, <<>>)
  ELSE ScanFail

\* JSONObject, from the first key on.
RECURSIVE ScanItems(_, _, _)
ScanItems(cs, p, acc) ==
  IF ~At(cs, p, 34) THEN ScanFail
  ELSE LET k == ScanString(cs, p + 1, <<>>) IN
  IF ~k.ok THEN ScanFail
  ELSE LET colon == SkipWs(cs, k.pos) IN
  IF ~At(cs, colon, 58) THEN ScanFail
  ELSE LET v == ScanValue(cs, SkipWs(cs, colon + 1)) IN
  IF ~v.ok THEN ScanFail
  ELSE LET more == SkipWs(cs, v.pos)
           its == Append(acc, Field(k.text, v.val)) IN
  IF At(cs, more, 125) THEN Scanned(more + 1, <<>>, NullVal, its)
  ELSE IF At(cs, more, 44) THEN ScanItems(cs, SkipWs(cs, more + 1), its)
  ELSE ScanFail

\* json.loads(text)
Loads(cs) ==
  LET open == SkipWs(cs, 1) IN
  IF ~At(cs, open, 123) THEN ScanFail
  ELSE LET first == SkipWs(cs, open + 1)
           obj == IF At(cs, first, 125) THEN Scanned(first + 1, <<>>, NullVal, <<>>)
                  ELSE ScanItems(cs, first, <<>>)
       IN  IF obj.ok /\ SkipWs(cs, obj.pos) = Len(cs) + 1 THEN obj ELSE ScanFail

\* struct.pack('!I', n) and struct.unpack('!I', b): 4 bytes, big-endian.
BE32(n) ==
  <<(n \div 16777216) % 256, (n \div 65536) % 256, (n \div 256) % 256, n % 256>>
\* (Lengths of 2^31 and more, which only a header read out of place can
\* state, are all taken as 2^31 - 1: far more bytes than any stream holds.)
FromBE32(b) ==
  IF b[1] >= 128 THEN 2147483647
  ELSE ((b[1] * 256 + b[2]) * 256 + b[3]) * 256 + b[4]

\* pack_message: json_len, the length of the encoded JSON text.
PackJsonLenChars(json_str) == Len(json_str)
PackJsonLen(json_str) == Len(Encode(json_str))

\* pack_message(json_data, bin_data), bin_data being None when none is TRUE.
pack_message(json_dict, none, bin) ==
  LET json_str == Dumps(json_dict)
      json_bytes == Encode(json_str)
      json_len == PackJsonLen(json_str)
      bin_len == IF none \/ bin = <<>> THEN 0 ELSE Len(bin)
      hdr == BE32(json_len) \o BE32(bin_len)
  IN  hdr \o json_bytes \o (IF none THEN <<>> ELSE bin)

\* The bytes that follow the frame on the connection in the "trail" case.
Trail == <<0, 0>>

\* A complete frame whose metadata bytes are not the JSON text of an
\* object: the opening brace (the first byte after the header) is replaced
\* by b.
Garble(frame, b) == [frame EXCEPT ![9] = b]

\* What the peer puts on the wire: exactly the frame; the frame and the
\* start of the next one; a complete frame whose metadata is not JSON
\* ("garbled": a closing brace first) or not UTF-8 ("badutf8": byte 0xFF
\* first); the first cut bytes of the frame, short of the whole frame,
\* then the connection is closed ("cut"); two frames one after the other,
\* whose bytes may arrive later than the reader's timeout ("slow"); or the
\* frame short of its last byte, then the connection is closed.
OnWire(frame, w) ==
  IF w = "exact" THEN frame
  ELSE IF w = "trail" THEN frame \o Trail
  ELSE IF w = "garbled" THEN Garble(frame, 125)
  ELSE IF w = "badutf8" THEN Garble(frame, 255)
  ELSE IF w = "cut" THEN SubSeq(frame, 1, Min(cut, Len(frame) - 1))
  ELSE IF w = "slow" THEN frame \o frame
  ELSE SubSeq(frame, 1, Len(frame) - 1)

\* unpack_message: json_len, bin_len = struct.unpack('!II', header)
json_len == FromBE32(SubSeq(header, 1, 4))
bin_len == FromBE32(SubSeq(header, 5, 8))

\* unpack_message: the size asked of recv when want bytes are needed and
\* have of them are in the buffer.
RecvSizeWhole(want, have) == want
RecvSize(want, have) == want - have

\* recv(n) on the socket: the chunks it may return. Any non-empty prefix of
\* what is on its way, of at most n bytes; b'' once the peer has closed.
Recv(n) ==
  IF stream = <<>> THEN {<<>>}
  ELSE {SubSeq(stream, 1, c) : c \in 1 .. Min(n, Len(stream))}

Drop(seq, c) == SubSeq(seq, c + 1, Len(seq))

\* The codec machine starts with the arguments of pack_message chosen.
CodecInit ==
  /\ pk_json \in Records
  /\ pk_none \in BOOLEAN
  /\ pk_bin \in IF pk_none THEN {<<>>} ELSE SeqsUpTo(PayloadBytes, MaxPayload)
  /\ wire \in {"exact", "trail", "short"} /\ cut = 0
  /\ stream = <<>> /\ header = <<>> /\ json_data = <<>> /\ bin_data = <<>>
  /\ upc = "pack"
  /\ unpacked = NoneNone
  /\ split = FALSE

\* The client at rest while the codec is observed.
InitCodec ==
  /\ EngineInit
  /\ variant = "single"
  /\ CodecInit
  /\ ReaderIdle
  /\ BuilderIdle

\* The peer packs the message and sends it.
Pack ==
  /\ upc = "pack"
  /\ stream' = OnWire(pack_message(pk_json, pk_none, pk_bin), wire)
  /\ upc' = "header"
  /\ UNCHANGED <<engineVars, readerVars, builderVars, pk_json, pk_none, pk_bin, wire, cut, header, json_data,
                 bin_data, unpacked, split>>

\* A decoder that hands what has arrived to its caller when the stream ends.
ReturnWhatArrived ==
  /\ unpacked' = [ok |-> TRUE, meta |-> {}, bin |-> bin_data]
  /\ upc' = "done"

\* return None, None
ReturnNone ==
  /\ unpacked' = NoneNone
  /\ upc' = "done"

\* unpack_message: one pass of the loop that reads the 8-byte header.
RecvHeader ==
  /\ upc = "header"
  /\ \E chunk \in Recv(RecvSize(8, Len(header))) :
       IF chunk = <<>>
       THEN ReturnNone /\ UNCHANGED <<stream, header, split>>
       ELSE /\ header' = header \o chunk
            /\ stream' = Drop(stream, Len(chunk))
            /\ split' = (split \/ Len(chunk) < RecvSize(8, Len(header)))
            /\ upc' = IF Len(header') < 8 THEN "header" ELSE "json"
            /\ unpacked' = unpacked
  /\ UNCHANGED <<engineVars, readerVars, builderVars, pk_json, pk_none, pk_bin, wire, cut, json_data, bin_data>>

\* unpack_message: the loop that reads the JSON text, one pass of it, or
\* none when nothing is left to read.
RecvJson ==
  /\ upc = "json"
  /\ IF Len(json_data) < json_len
     THEN \E chunk \in Recv(RecvSize(json_len, Len(json_data))) :
            IF chunk = <<>>
            THEN ReturnNone /\ UNCHANGED <<stream, json_data, split>>
            ELSE /\ json_data' = json_data \o chunk
                 /\ stream' = Drop(stream, Len(chunk))
                 /\ split' = (split \/ Len(chunk) < RecvSize(json_len, Len(json_data)))
                 /\ UNCHANGED <<upc, unpacked>>
     ELSE /\ upc' = "bin"
          /\ UNCHANGED <<stream, json_data, split, unpacked>>
  /\ UNCHANGED <<engineVars, readerVars, builderVars, pk_json, pk_none, pk_bin, wire, cut, header, bin_data>>

\* unpack_message: the loop that reads the binary data (if bin_len > 0),
\* one pass of it, or none when nothing is left to read.
RecvBin ==
  /\ upc = "bin"
  /\ IF bin_len > 0 /\ Len(bin_data) < bin_len
     THEN \E chunk \in Recv(RecvSize(bin_len, Len(bin_data))) :
            IF chunk = <<>>
            THEN ReturnNone /\ UNCHANGED <<stream, bin_data, split>>
            ELSE /\ bin_data' = bin_data \o chunk
                 /\ stream' = Drop(stream, Len(chunk))
                 /\ split' = (split \/ Len(chunk) < RecvSize(bin_len, Len(bin_data)))
                 /\ UNCHANGED <<upc, unpacked>>
     ELSE /\ upc' = "loads"
          /\ UNCHANGED <<stream, bin_data, split, unpacked>>
  /\ UNCHANGED <<engineVars, readerVars, builderVars, pk_json, pk_none, pk_bin, wire, cut, header, json_data>>

\* What unpack_message returns from the buffers hdr, js, bn:
\* json.loads(json_data.decode()), bin_data, or (None, None) when that raises
\* (struct.unpack wants 8 bytes exactly).
Returned(hdr, js, bn) ==
  LET text == Decode(js, 1, <<>>)
      doc == IF text.ok THEN Loads(text.text) ELSE ScanFail
  IN  IF Len(hdr) = 8 /\ doc.ok
      THEN [ok |-> TRUE, meta |-> AsDict(doc.items), bin |-> bn]
      ELSE NoneNone

\* unpack_message: the return statement.
Return ==
  /\ upc = "loads"
  /\ unpacked' = Returned(header, json_data, bin_data)
  /\ upc' = "done"
  /\ UNCHANGED <<engineVars, readerVars, builderVars, pk_json, pk_none, pk_bin, wire, cut, stream, header,
                 json_data, bin_data, split>>

NextCodec ==
  \/ Pack
  \/ RecvHeader
  \/ RecvJson
  \/ RecvBin
  \/ Return

SpecCodec == InitCodec /\ [][NextCodec]_vars

\* The decoder facing a peer that closes the connection after any number
\* of bytes of the frame, next to a peer that sends the frame whole.
InitCut ==
  /\ EngineInit
  /\ variant = "single"
  /\ ReaderIdle
  /\ BuilderIdle
  /\ pk_json \in Records
  /\ pk_none \in BOOLEAN
  /\ pk_bin \in IF pk_none THEN {<<>>} ELSE SeqsUpTo(PayloadBytes, MaxPayload)
  /\ \/ wire = "cut" /\ cut \in 0 .. MaxCut
     \/ wire = "trail" /\ cut = 0
  /\ stream = <<>> /\ header = <<>> /\ json_data = <<>> /\ bin_data = <<>>
  /\ upc = "pack"
  /\ unpacked = NoneNone
  /\ split = FALSE

SpecCut == InitCut /\ [][NextCodec]_vars

\* The decoder called again and again on a connection whose bytes arrive
\* slowly: the peer sends two frames, and a read may time out at any point.
InitSlow ==
  /\ EngineInit
  /\ variant = "single"
  /\ ReaderIdle
  /\ BuilderIdle
  /\ pk_json \in Records
  /\ pk_none \in BOOLEAN
  /\ pk_bin \in IF pk_none THEN {<<>>} ELSE SeqsUpTo(PayloadBytes, MaxPayload)
  /\ wire = "slow" /\ cut = 0
  /\ stream = <<>> /\ header = <<>> /\ json_data = <<>> /\ bin_data = <<>>
  /\ upc = "pack"
  /\ unpacked = NoneNone
  /\ split = FALSE

\* unpack_message: recv raises socket.timeout because the next bytes have
\* not arrived in time (settimeout(RE_TRANSMISSION_TIME)); except Exception
\* returns (None, None). The buffers are local variables of the call.
RecvTimeout ==
  /\ upc \in {"header", "json", "bin"}
  /\ stream # <<>>
  /\ ReturnNone
  /\ UNCHANGED <<engineVars, readerVars, builderVars, pk_json, pk_none, pk_bin, wire, cut, stream,
                 header, json_data, bin_data, split>>

\* The next call of unpack_message on the same socket (the read of the
\* response to the retransmitted request): its buffers start empty.
UnpackAgain ==
  /\ upc = "done"
  /\ stream # <<>>
  /\ upc' = "header"
  /\ header' = <<>> /\ json_data' = <<>> /\ bin_data' = <<>>
  /\ UNCHANGED <<engineVars, readerVars, builderVars, pk_json, pk_none, pk_bin, wire, cut, stream,
                 unpacked, split>>

NextSlow ==
  \/ NextCodec
  \/ RecvTimeout
  \/ UnpackAgain

SpecSlow == InitSlow /\ [][NextSlow]_vars

\* ------------------------------------------------------ request builder
\* The arguments send_message / async_send_message may be called with: an
\* operation, a payload type, a token (None before login) and the caller's
\* field map, whose keys may collide with the base keys.
Operations == {"LOGIN", "SAVE", "UPLOAD"}
Types == {"AUTH", "FILE"}
PayloadKeys == {"key", "direction", "token"}
PayloadValues == {"f", "RESPONSE"}
Payloads == UNION {[ks -> PayloadValues] : ks \in SUBSET PayloadKeys}

\* dict.update(other): the keys of other are added, or their values replaced.
DictUpdate(d, other) ==
  [k \in DOMAIN d \cup DOMAIN other |->
     IF k \in DOMAIN other THEN other[k] ELSE d[k]]

\* send_message: the base message with direction REQUEST.
BaseMessage(operation, data_type, tk) ==
  [operation |-> operation, type |-> data_type, direction |-> "REQUEST",
   token |-> tk]

\* send_message: message = {...}; message.update(payload).
BuildMessage(a) ==
  DictUpdate(BaseMessage(a.operation, a.type, a.token), a.payload)

InitBuild ==
  /\ EngineInit
  /\ variant = "single"
  /\ CodecIdle
  /\ ReaderIdle
  /\ sm_args \in [operation : Operations, type : Types, payload : Payloads,
                  token : {NoToken, Token}]
  /\ message = NoMessage

\* send_message builds the message it hands to pack_message.
SendMessage ==
  /\ sm_args # NoMessage
  /\ message = NoMessage
  /\ message' = BuildMessage(sm_args)
  /\ UNCHANGED <<engineVars, codecVars, readerVars, sm_args>>

NextBuild == SendMessage

SpecBuild == InitBuild /\ [][NextBuild]_vars

\* ------------------------------------------------- decoder failure modes
\* The decoder observed on what a faulty peer delivers: a frame cut short
\* by the close of the connection, or a complete frame with malformed
\* metadata; and, for comparison, a good frame.
InitDecode ==
  /\ EngineInit
  /\ variant = "single"
  /\ ReaderIdle
  /\ BuilderIdle
  /\ pk_json \in Records
  /\ pk_none \in BOOLEAN
  /\ pk_bin \in IF pk_none THEN {<<>>} ELSE SeqsUpTo(PayloadBytes, MaxPayload)
  /\ wire \in {"exact", "short", "garbled", "badutf8"} /\ cut = 0
  /\ stream = <<>> /\ header = <<>> /\ json_data = <<>> /\ bin_data = <<>>
  /\ upc = "pack"
  /\ unpacked = NoneNone
  /\ split = FALSE

SpecDecode == InitDecode /\ [][NextCodec]_vars

\* ------------------------------------------------------ the block readers
\* read_blocks_single_thread (mmap) and async_read_blocks / read_blocks_fast
\* (aiofiles), given file_size, block_size and total_blocks.
ReaderInit ==
  /\ rd_kind \in {"mmap", "aiofiles"}
  /\ rd_size \in 0 .. MaxFile
  /\ rd_bs \in 1 .. MaxFile
  /\ rd_total \in 0 .. (MaxFile + 1)
  /\ rd_idx = 0
  /\ rd_out = <<>>
  /\ rd_pc = "open"

\* The client and the codec at rest while a block reader is observed.
InitBlocks ==
  /\ EngineInit
  /\ variant = "single"
  /\ CodecIdle
  /\ ReaderInit
  /\ BuilderIdle

\* open the file; mmap.mmap(f.fileno(), 0) raises on an empty file.
OpenFile ==
  /\ rd_pc = "open"
  /\ rd_pc' = IF rd_kind = "mmap" /\ rd_size = 0 THEN "raised" ELSE "loop"
  /\ UNCHANGED <<engineVars, codecVars, builderVars, rd_kind, rd_size, rd_bs, rd_total,
                 rd_idx, rd_out>>

\* One pass of for block_idx in range(total_blocks): seek, read, yield.
\* mmap's seek raises when the position is past the end of the file.
ReadBlock ==
  /\ rd_pc = "loop"
  /\ rd_idx < rd_total
  /\ IF rd_kind = "mmap" /\ SeekPos(rd_bs, rd_idx) > rd_size
     THEN /\ rd_pc' = "raised"
          /\ UNCHANGED <<rd_idx, rd_out>>
     ELSE /\ rd_out' = Append(rd_out, [lo |-> SeekPos(rd_bs, rd_idx),
                                       len |-> ChunkLen(rd_size, rd_bs, rd_idx)])
          /\ rd_idx' = rd_idx + 1
          /\ rd_pc' = rd_pc
  /\ UNCHANGED <<engineVars, codecVars, builderVars, rd_kind, rd_size, rd_bs, rd_total>>

\* The for loop is over.
EndBlocks ==
  /\ rd_pc = "loop"
  /\ rd_idx = rd_total
  /\ rd_pc' = "done"
  /\ UNCHANGED <<engineVars, codecVars, builderVars, rd_kind, rd_size, rd_bs, rd_total,
                 rd_idx, rd_out>>

NextBlocks ==
  \/ OpenFile
  \/ ReadBlock
  \/ EndBlocks

SpecBlocks == InitBlocks /\ [][NextBlocks]_vars

\* ------------------------------------------------------- the local digest
\* calculate_local_md5 (and calculate_md5 of the test utilities): the file
\* is read sequentially, block_size bytes at a time, every chunk is fed to
\* the md5 accumulator, until a read returns nothing. rd_out holds the byte
\* ranges fed so far.
\* The position of the file object after the reads that produced out, when
\* a reader skips one byte after every chunk.
FilePosSkipping(out) ==
  IF out = <<>> THEN 0 ELSE out[Len(out)].lo + out[Len(out)].len + 1

\* The position of the file object after the reads that produced out.
FilePos(out) ==
  IF out = <<>> THEN 0 ELSE out[Len(out)].lo + out[Len(out)].len

DigestInit ==
  /\ rd_kind = "md5"
  /\ rd_size \in 0 .. MaxDigestFile
  /\ rd_bs \in {md5_block_size, test_block_size}
  /\ rd_total = 0
  /\ rd_idx = 0
  /\ rd_out = <<>>
  /\ rd_pc = "loop"

InitDigest ==
  /\ EngineInit
  /\ variant = "single"
  /\ CodecIdle
  /\ DigestInit
  /\ BuilderIdle

\* while chunk := f.read(block_size): md5_hash.update(chunk)
Md5Chunk ==
  /\ rd_kind = "md5"
  /\ rd_pc = "loop"
  /\ LET pos == FilePos(rd_out)
         n == FileRead(rd_size, pos, rd_bs)
     IN  IF n = 0
         THEN /\ rd_pc' = "done"
              /\ UNCHANGED <<rd_idx, rd_out>>
         ELSE /\ rd_out' = Append(rd_out, [lo |-> pos, len |-> n])
              /\ rd_idx' = rd_idx + 1
              /\ rd_pc' = rd_pc
  /\ UNCHANGED <<engineVars, codecVars, builderVars, rd_kind, rd_size, rd_bs, rd_total>>

NextDigest == Md5Chunk

SpecDigest == InitDigest /\ [][NextDigest]_vars

\* ------------------------------------------- what the claims talk about
\* The UPLOAD requests put on the wire, in order, and their positions in sent.
IsUpload(r) == r.op = "UPLOAD"
Uploads == SelectSeq(sent, IsUpload)
UploadPositions == {n \in 1 .. Len(sent) : IsUpload(sent[n])}
UploadCount(i) == Cardinality({n \in UploadPositions : sent[n].idx = i})

\* The blocks that have sent an UPLOAD request and whose read of the
\* response has not ended yet.
InFlight == {i \in Blocks : tpc[i] \in {"drain", "reading"}}

\* C1: in clientAsync1 and pureAsync a block's UPLOAD send and the read of
\* its response form one uninterrupted turn: in every reachable state at
\* most one block has sent an UPLOAD whose response read has not ended.
C1_OneTurnAtATime ==
  variant \in {"async1", "pure"} => Cardinality(InFlight) <= 1

\* C2: in every variant, once the response to a block's UPLOAD carried a
\* status in [400,500), no UPLOAD request is sent any more and the upload
\* operation does not report success.
C2_ClientErrorEndsTransfer ==
  at4xx # -1 =>
    /\ \A n \in UploadPositions : n <= at4xx
    /\ result # "Success"

\* C3: in every variant and whatever the server does, the UPLOAD request of
\* any one block index is sent at most 3 times during a transfer.
C3_AtMostThreeSends ==
  \A i \in Blocks : UploadCount(i) <= 3

\* C4: if any block exhausts its retries, the upload operation does not
\* return True / report Success.
C4_ExhaustionFailsTransfer ==
  exhausted # {} => result # "Success"

\* C5: in every variant, once a block-upload response containing md5 has
\* been received, no UPLOAD request is issued for a block that had not been
\* sent before.
C5_NoNewBlockAfterMd5 ==
  atMd5 # -1 =>
    \A n \in UploadPositions :
      n > atMd5 =>
        \E m \in UploadPositions : m <= atMd5 /\ sent[m].idx = sent[n].idx

\* C6: in every variant, an upload plan for a file of size 0 fails locally:
\* no SAVE request is sent for it and the plan is not adopted.
C6_ZeroSizeRejectedLocally ==
  /\ \A n \in 1 .. Len(sent) : sent[n].op = "SAVE" => sent[n].len # 0
  /\ mainpc \in {"transfer", "gather"} => file_size # 0

\* C7: in every variant, when the LOGIN response carries a status in
\* [400,500) the session terminates: the token stays unset, the connection
\* is closed and no further request is sent.
C7_LoginClientErrorEndsSession ==
  atLogin4xx # -1 =>
    /\ token = NoToken
    /\ ~sockOpen
    /\ Len(sent) = atLogin4xx

\* C8: with a server that acknowledges every UPLOAD and puts md5 in the
\* response to the block that completes the file, and with no timeout or
\* transport failure, the blocks 0..total_block-1 are sent exactly once each
\* in increasing order, each with the length of its chunk, and the transfer
\* then completes with the server's digest compared against the local one.
C8_NominalTransfer ==
  (faults = 0 /\ file_size > 0) =>
    /\ \A n \in 1 .. Len(Uploads) :
         /\ n <= total_blocks
         /\ Uploads[n].idx = n - 1
         /\ Uploads[n].len = ChunkSize(n - 1)
    /\ result = "Success" =>
         /\ Len(Uploads) = total_blocks
         /\ outcome = "verified"

\* The frame the peer packed, and what unpack_message returns for it when
\* every recv delivers all the bytes it was asked for.
FrameBytes == pack_message(pk_json, pk_none, pk_bin)
WholeResult(f) ==
  LET jl == FromBE32(SubSeq(f, 1, 4))
      bl == FromBE32(SubSeq(f, 5, 8))
  IN  Returned(SubSeq(f, 1, 8), SubSeq(f, 9, 8 + jl),
               SubSeq(f, 9 + jl, 8 + jl + bl))

\* C9: for every metadata record M and payload P (the empty payload and an
\* absent payload included, the latter decoding as empty), unpack_message
\* applied to the bytes of pack_message(M, P) returns (M, P).
C9_RoundTrip ==
  (upc = "done" /\ wire # "short") =>
    unpacked = [ok |-> TRUE, meta |-> AsDict(pk_json), bin |-> pk_bin]

\* A frame with a non-ASCII string in its metadata and no payload given
\* has been unpacked.
C9_Witness ==
  /\ upc = "done" /\ wire = "exact" /\ unpacked.ok
  /\ pk_none
  /\ \E a \in 1 .. Len(pk_json) : pk_json[a].val = StrVal(<<233>>)

\* C10: however the bytes of a frame are split into non-empty chunks by
\* successive recv calls, unpack_message returns what it returns when they
\* arrive in one chunk, and consumes exactly the bytes of that frame.
C10_AnyChunking ==
  (upc = "done" /\ wire # "short") =>
    /\ unpacked = WholeResult(FrameBytes)
    /\ stream = (IF wire = "trail" THEN Trail ELSE <<>>)

\* A frame with a payload, followed by more bytes, has been unpacked from
\* chunks shorter than what recv was asked for.
C10_Witness ==
  /\ upc = "done" /\ wire = "trail" /\ unpacked.ok
  /\ split
  /\ Len(pk_bin) = MaxPayload

\* The plan given to the block reader is the one of a file of at least one
\* byte: total_block = ceil(size / block_size).
ConsistentPlan == rd_size >= 1 /\ rd_total = CeilDiv(rd_size, rd_bs)

\* C11: for every file size S >= 1 and plan (B >= 1, N = ceil(S/B)) the
\* byte ranges the block readers produce for the indices 0..N-1 are
\* [i*B, min(S, (i+1)*B)) and cover [0, S) exactly once: no gap, no
\* overlap, nothing beyond S.
C11_BlockCoverage ==
  ConsistentPlan =>
    /\ rd_pc # "raised"
    /\ rd_pc = "done" =>
         /\ Len(rd_out) = rd_total
         /\ \A n \in 1 .. Len(rd_out) :
              /\ rd_out[n].lo = (n - 1) * rd_bs
              /\ rd_out[n].lo + rd_out[n].len = Min(rd_size, n * rd_bs)
         /\ \A b \in 0 .. (rd_size - 1) :
              Cardinality({n \in 1 .. Len(rd_out) :
                             rd_out[n].lo <= b /\ b < rd_out[n].lo + rd_out[n].len}) = 1

\* Three blocks or more, the last one shorter than block_size, have been read.
C11_Witness ==
  /\ ConsistentPlan /\ rd_pc = "done"
  /\ rd_total >= 3 /\ rd_size % rd_bs # 0

C13_PlanVerbatim ==
  /\ \A n \in UploadPositions :
       /\ save_response # NoPlan /\ ~IsClientError(save_response.status)
       /\ sent[n].idx \in 0 .. (save_response.total_block - 1)
       /\ sent[n].key = save_response.key
       /\ sent[n].len = ChunkLen(file_size, save_response.block_size, sent[n].idx)
  /\ (result = "Success" /\ atMd5 = -1 /\ exhausted = {}) =>
       {sent[n].idx : n \in UploadPositions} = 0 .. (save_response.total_block - 1)

\* A transfer of two blocks under a key the server rewrote has run to its end.
C13_Witness ==
  /\ result = "Success" /\ atMd5 = -1 /\ exhausted = {}
  /\ save_response.key # ReqKey
  /\ save_response.total_block = 2
  /\ UploadCount(0) >= 1 /\ UploadCount(1) >= 1

\* Every block of the plan was sent and answered with a status outside
\* [400,500), and none of the answers carried md5.
AllAckedNoMd5 ==
  /\ save_response # NoPlan /\ ~IsClientError(save_response.status)
  /\ total_blocks >= 1
  /\ \A i \in 0 .. (total_blocks - 1) :
       /\ UploadCount(i) >= 1
       /\ tres[i] # NoFrame
       /\ ~IsClientError(tres[i].status)
       /\ tres[i].md5 = "none"
  /\ atMd5 = -1

C16_UploadOnlyAfterPlan ==
  /\ \A n \in UploadPositions :
       /\ save_response # NoPlan
       /\ ~IsClientError(save_response.status)
       /\ \E m \in 1 .. (n - 1) : sent[m].op = "SAVE"
  /\ (save_response # NoPlan /\ IsClientError(save_response.status)) =>
       /\ result # "Success" /\ outcome = "none"
       /\ mainpc \in {"exited", "closing", "closed"}
       /\ file_key = "" /\ total_blocks = 0 /\ block_size = 0
       /\ UploadPositions = {}

\* A SAVE request was answered with a 4xx status and the session is over.
C16_Witness ==
  /\ save_response # NoPlan /\ IsClientError(save_response.status)
  /\ \E m \in 1 .. Len(sent) : sent[m].op = "SAVE"
  /\ mainpc \in {"exited", "closed"}

\* C17: once a login has succeeded the session token never changes, and
\* every later request (SAVE, every UPLOAD with its retransmissions, BYE)
\* carries the token of the LOGIN response.
C17_TokenOnEveryRequest ==
  /\ [](\A n \in 1 .. Len(sent) :
          sent[n].op \in {"SAVE", "UPLOAD", "BYE"} => sent[n].token = token)
  /\ [][mainpc # "login" => token' = token]_vars

\* After a login that returned a token: SAVE, a retransmitted UPLOAD and
\* BYE were sent.
C17_Witness ==
  /\ token = Token
  /\ \E n \in 1 .. Len(sent) : sent[n].op = "SAVE"
  /\ \E i \in Blocks : UploadCount(i) >= 2
  /\ Len(sent) >= 1 /\ sent[Len(sent)].op = "BYE"

\* C18: a login with the reserved sentinel identity always returns failure
\* and leaves the token unset (the step that sends the sentinel message
\* keeps the client in the login loop with the token it had), and as long
\* as no LOGIN request was sent, which covers every session whose login
\* attempts all used the sentinel, the token is unset and no SAVE and no
\* UPLOAD request has been sent.
C18_SentinelNeverLogsIn ==
  /\ []((\A n \in 1 .. Len(sent) : sent[n].op # "LOGIN") =>
          /\ token = NoToken
          /\ mainpc \in {"login", "crashed"}
          /\ \A n \in 1 .. Len(sent) : sent[n].op \notin {"SAVE", "UPLOAD"})
  /\ [][(Len(sent') = Len(sent) + 1 /\ sent'[Len(sent')].op = "EARTH") =>
          /\ mainpc = "login" /\ mainpc' = "login"
          /\ token' = token]_vars

\* Every login attempt allowed used the sentinel.
C18_Witness ==
  /\ logins = MaxLogins
  /\ Len(sent) = MaxLogins
  /\ \A n \in 1 .. Len(sent) : sent[n].op = "EARTH"
  /\ token = NoToken /\ mainpc = "login"

\* C19: when every read of a block's response times out, the UPLOAD of the
\* block is sent exactly 3 times in total and the block is then reported
\* as permanently failed: a block all of whose requests timed out was sent
\* at most 3 times, after three timed out reads it is reported failed, and
\* no block is reported failed before its third attempt.
C19_ThreeTimeoutsThenFailed ==
  \A i \in Blocks :
    /\ rto[i] <= max_retries
    /\ (rto[i] = UploadCount(i)) => UploadCount(i) <= max_retries
    /\ (rto[i] >= max_retries) => (i \in exhausted /\ UploadCount(i) = max_retries)
    /\ (i \in exhausted) => attempt[i] = max_retries - 1

\* C20: a block whose response carries a status in [400,500) is never
\* retried: in every variant no UPLOAD for that block index is sent after
\* that response was received.
C20_ClientErrorNotRetried ==
  \A i \in Blocks :
    r4xx[i] # -1 =>
      \A n \in UploadPositions : sent[n].idx = i => n <= r4xx[i]

\* A block was answered with a 4xx status after a retransmission, and the
\* client has moved on to further requests.
C20_Witness ==
  \E i \in Blocks :
    /\ r4xx[i] # -1
    /\ UploadCount(i) = 2
    /\ Len(sent) > r4xx[i]

\* What the caller of unpack_message gets when the stream was closed
\* before a complete frame arrived.
EndOfStreamResult == NoneNone

\* C21: the outcome of the decoder for a complete frame whose metadata
\* bytes do not parse (ProtocolError) is distinguishable from its outcome
\* for a stream closed before a complete frame arrived (EndOfStream): what
\* unpack_message returns for the malformed frame is not what it returns
\* at end of stream.
C21_ProtocolErrorDistinct ==
  (upc = "done" /\ wire \in {"garbled", "badutf8"}) =>
    unpacked # EndOfStreamResult

\* A frame cut short by the close of the connection was unpacked: the
\* caller got the end-of-stream result.
C21_EndOfStreamSeen ==
  upc = "done" /\ wire = "short" /\ unpacked = EndOfStreamResult

\* C22: when a frame with malformed metadata is received as the response
\* to a block's UPLOAD the transfer stops at that point: the block is not
\* retried and no further UPLOAD request is sent on that connection.
C22_MalformedStopsTransfer ==
  atBad # -1 => \A n \in UploadPositions : n <= atBad

\* C23: in every variant a transport-level failure of an attempt (while
\* sending the UPLOAD or while receiving its response) with fewer than 3
\* attempts made leads to another send of the same block: no block is
\* given up before its third attempt, and the failure never escapes the
\* engine as an unhandled error (the client does not crash during the
\* transfer; the one other crash there, the block reader of
\* clientSingleThread seeking past the end of the file, is set aside).
C23_TransportFailureRetried ==
  /\ [](\A i \in exhausted : attempt[i] = max_retries - 1)
  /\ [][(/\ mainpc \in {"transfer", "gather"}
         /\ ~(variant = "single" /\ SeekPos(block_size, cur) > file_size))
        => mainpc' # "crashed"]_vars

\* C24: for every operation, payload type, token and caller-supplied field
\* map (a map with a direction key included) the message built by
\* send_message / async_send_message has direction REQUEST.
C24_DirectionAlwaysRequest ==
  message # NoMessage => message.direction = "REQUEST"

\* A message was built from a field map that has no direction key, and it
\* carries the caller's fields.
C24_Witness ==
  /\ message # NoMessage
  /\ "direction" \notin DOMAIN sm_args.payload
  /\ "key" \in DOMAIN sm_args.payload
  /\ message.key = sm_args.payload.key
  /\ message.direction = "REQUEST"

\* The payload lengths that arrived at a receiver for block index i, and
\* the stores a receiver may end with when it keeps one payload per index
\* (whichever of the sends of that index it keeps).
PayloadLens(i) == {sent[n].len : n \in {u \in UploadPositions : sent[u].idx = i}}
Stores == {st \in [0 .. (total_blocks - 1) -> 0 .. MaxSize] :
             \A i \in 0 .. (total_blocks - 1) : st[i] \in PayloadLens(i)}
RECURSIVE StoredBytes(_, _)
StoredBytes(st, n) == IF n = 0 THEN 0 ELSE st[n - 1] + StoredBytes(st, n - 1)
EnginePlanConsistent ==
  /\ mainpc \notin {"login", "file"}
  /\ file_size >= 1 /\ block_size >= 1
  /\ total_blocks = CeilDiv(file_size, block_size)

\* C25: re-sending a block index does not corrupt reconstruction. Every
\* send of index i carries the bytes [i*B, min(S,(i+1)*B)) (the payload the
\* block reader produced for i, the same at every attempt), so whatever
\* the order of arrival and whichever duplicate it keeps, a receiver with
\* one payload per index holds ranges that tile [0,S): the file.
C25_RetryIdempotent ==
  EnginePlanConsistent =>
    /\ \A i \in Blocks : \A l \in PayloadLens(i) :
         /\ i < total_blocks
         /\ l = Min(file_size, (i + 1) * block_size) - i * block_size
         /\ l >= 1
    /\ \A st \in Stores : StoredBytes(st, total_blocks) = file_size

\* Block 0 was sent, then block 1, then block 0 again; every index arrived.
C25_Witness ==
  /\ EnginePlanConsistent /\ total_blocks = 2
  /\ Stores # {}
  /\ \E a, b, c \in UploadPositions :
       a < b /\ b < c /\ sent[a].idx = 0 /\ sent[b].idx = 1 /\ sent[c].idx = 0

\* C26: the digest computed by streaming the file in chunks of 8192 bytes
\* is the digest of the whole content, for every file size (0, 1, 8191,
\* 8192, 8193 and multiples of 8192 among them): the chunks fed to the
\* accumulator are non-empty, follow each other without gap or overlap
\* from byte 0, none is longer than the chunk size, and when the loop ends
\* they make up exactly the bytes [0, size) of the file.
C26_StreamedDigestIsWhole ==
  rd_kind = "md5" =>
    /\ \A a \in 1 .. Len(rd_out) :
         /\ rd_out[a].lo = (IF a = 1 THEN 0
                            ELSE rd_out[a - 1].lo + rd_out[a - 1].len)
         /\ rd_out[a].len >= 1 /\ rd_out[a].len <= rd_bs
         /\ rd_out[a].lo + rd_out[a].len <= rd_size
    /\ rd_pc = "done" => FilePos(rd_out) = rd_size

\* A file of 8193 bytes was digested in three reads of 8192 bytes: two
\* chunks and the empty read that ends the loop.
C26_Witness ==
  /\ rd_kind = "md5" /\ rd_pc = "done"
  /\ rd_bs = md5_block_size /\ rd_size = md5_block_size + 1
  /\ Len(rd_out) = 2 /\ rd_out[2].len = 1

\* C27: under fairness and whatever the server does, a server that never
\* answers included, a transfer that has entered Transferring eventually
\* reaches Completed or Failed in every variant: the engine does not stay
\* in the transfer forever.
C27_TransferTerminates ==
  (mainpc = "transfer") ~> (mainpc \in {"closing", "closed", "crashed", "exited"})

\* C28: every response frame the client accepts as the acknowledgement of
\* an UPLOAD attempt for block i (the terminal md5 response included) was
\* produced by the server in reply to an UPLOAD request for block i, also
\* when the reply to an earlier attempt arrives late: the response kept
\* for a block is never the reply to the request of another block.
C28_AckMatchesBlock ==
  \A i \in Blocks : tres[i] # NoFrame => tres[i].for = i

\* C29: between any two consecutive sends of the UPLOAD request of one
\* block index the client makes a backoff wait, in every variant: a block
\* sent k times has been through at least k - 1 backoff sleeps.
C29_BackoffBetweenSends ==
  \A i \in Blocks : UploadCount(i) <= naps[i] + 1

\* The blocks in flight: the upload has started and the block is neither
\* acknowledged nor permanently failed.  In clientAsync1 the upload starts
\* when upload_file_async creates the task of the block; in pureAsync every
\* task is created at once and the upload starts when upload_block has
\* entered the semaphore.
BlocksInFlight ==
  {i \in Blocks :
     /\ tpc[i] # "done"
     /\ IF variant = "async1" THEN tpc[i] # "new"
                              ELSE tpc[i] \notin {"new", "ready"}}

\* C30: in the bounded-concurrent clients (clientAsync1, pureAsync) the
\* number of blocks in flight never exceeds max_concurrent_uploads in any
\* reachable state.
C30_InFlightBounded ==
  variant \in {"async1", "pure"} => Cardinality(BlocksInFlight) <= maxc

\* The bound is reached while a further block is waiting for its turn: in
\* pureAsync a created task waits at the semaphore, in clientAsync1 the
\* main loop waits for a task to complete before it creates the next one.
C30_Witness ==
  /\ variant \in {"async1", "pure"}
  /\ mainpc = "transfer" \/ mainpc = "gather"
  /\ Cardinality(BlocksInFlight) = maxc
  /\ \E j \in Blocks : j < total_blocks /\ tpc[j] \in {"new", "ready"} /\ j \notin BlocksInFlight
  /\ \E j \in BlocksInFlight : UploadCount(j) >= 1

\* The position in sent of the first UPLOAD request of block i (0 when no
\* UPLOAD request of block i was sent).
FirstSend(i) ==
  IF UploadCount(i) = 0 THEN 0
  ELSE CHOOSE n \in UploadPositions :
         /\ sent[n].idx = i
         /\ \A m \in UploadPositions : sent[m].idx = i => n <= m

\* C31: in every variant the engine never skips a block index: the block
\* indices for which an UPLOAD request has been sent form a prefix
\* 0..k of 0..total_block-1, and the first send of index i+1 never
\* comes before the first send of index i.
C31_NoIndexSkipped ==
  /\ \A n \in UploadPositions : sent[n].idx \in 0 .. (total_blocks - 1)
  /\ \A i \in Blocks :
       (i + 1 \in Blocks /\ UploadCount(i + 1) > 0)
         => (UploadCount(i) > 0 /\ FirstSend(i) < FirstSend(i + 1))

\* The value a digest string denotes: its lower case spelling.
Lower(m) == IF m = "D1" THEN "d1" ELSE m

\* C32: the digest comparison is insensitive to hex-letter case: when the
\* md5 of the server's terminal response and the local digest denote the
\* same value, also when they differ in letter case, the completion
\* handler reports a match.
C32_DigestCaseInsensitive ==
  (outcome # "none" /\ md5_response # NoFrame /\ md5_response.md5 # "none"
     /\ Lower(md5_response.md5) = Lower(LocalMd5))
    => outcome = "verified"

\* The last LOGIN response had a status outside [400,500) and no token.
TokenlessLogin ==
  /\ login_response.status # 0
  /\ ~IsClientError(login_response.status)
  /\ login_response.token = NoToken

C34_PartialFrameIsEndOfStream ==
  /\ wire = "cut" => ~unpacked.ok
  /\ (upc = "done" /\ wire = "cut") => unpacked = EndOfStreamResult
  /\ upc = "loads" => header \o json_data \o bin_data = FrameBytes

\* The peer closed inside the metadata: the header was read whole, some
\* but not all of the metadata bytes arrived, and the decoder returned.
C34_Witness ==
  /\ upc = "done" /\ wire = "cut"
  /\ Len(header) = 8
  /\ 0 < Len(json_data) /\ Len(json_data) < json_len
  /\ unpacked = EndOfStreamResult

\* The request this step puts on the wire is one of operation o.
Sends(o) == Len(sent') = Len(sent) + 1 /\ sent'[Len(sent')].op = o

\* C35: when no response frame arrives for a LOGIN request, login returns
\* failure (main stays in its login loop), leaves the token unset and lets
\* no exception escape; when none arrives for the SAVE request, the upload
\* operation returns failure with no plan field adopted and no UPLOAD is
\* ever sent.
C35_NoResponseIsFailure ==
  /\ [][(Sends("LOGIN") /\ login_response' = NoLogin) =>
          /\ mainpc' = "login" /\ sockOpen'
          /\ token' = NoToken]_vars
  /\ [][(Sends("SAVE") /\ save_response' = NoPlan) =>
          /\ result' = "Failed" /\ mainpc' = "closing" /\ sockOpen'
          /\ file_key' = file_key /\ total_blocks' = total_blocks
          /\ block_size' = block_size]_vars
  /\ []((save_response = NoPlan /\ \E n \in 1 .. Len(sent) : sent[n].op = "SAVE") =>
          /\ UploadPositions = {}
          /\ file_key = "" /\ total_blocks = 0 /\ block_size = 0
          /\ mainpc \in {"closing", "closed"})

\* A first LOGIN got no response, a second one succeeded, and the SAVE
\* request then got no response: the client has closed the session.
C35_Witness ==
  /\ Cardinality({n \in 1 .. Len(sent) : sent[n].op = "LOGIN"}) = 2
  /\ atLogin4xx = -1
  /\ token = Token
  /\ \E n \in 1 .. Len(sent) : sent[n].op = "SAVE"
  /\ save_response = NoPlan
  /\ result = "Failed" /\ mainpc = "closed"

\* The BYE requests put on the wire.
ByePositions == {n \in 1 .. Len(sent) : sent[n].op = "BYE"}

\* C36: close() sends at most one BYE request, carrying the session token,
\* and then always closes the connection, also when sending BYE fails;
\* after close() no frame is sent on that connection.
C36_CloseSendsByeAndCloses ==
  /\ [](/\ Cardinality(ByePositions) <= 1
        /\ \A n \in ByePositions :
             sent[n].token = token /\ n = Len(sent) /\ ~sockOpen)
  /\ [][mainpc = "closing" =>
          /\ mainpc' = "closed" /\ ~sockOpen'
          /\ sent' = sent \/ (Sends("BYE") /\ sent'[Len(sent')].token = token)
       ]_vars
  /\ [][~sockOpen => (sent' = sent /\ ~sockOpen')]_vars

\* close() ran after an upload, sending BYE failed, and the connection is
\* closed.
C36_Witness ==
  /\ mainpc = "closed" /\ ~sockOpen
  /\ ByePositions = {}
  /\ UploadPositions # {}

\* How many bytes of the server's stream the decoder has consumed.
Consumed == Len(OnWire(FrameBytes, wire)) - Len(stream)

\* C37: every call of the decoder starts reading at a frame boundary of
\* the server's byte stream, also after a read that timed out part-way
\* through a frame: when a call has read nothing yet, the bytes consumed
\* before it are a whole number of frames.
C37_ReadsStartAtFrameBoundary ==
  (upc = "header" /\ header = <<>>) =>
    Consumed \in {0, Len(FrameBytes), 2 * Len(FrameBytes)}

\* Some step of the clientAsync1 engine can be taken: the main loop, a
\* task, or the final gather.
A1CanStep == ENABLED (A1Main \/ A1Gather \/ \E i \in Blocks : A1Task(i))

ReturnedMd5 == {i \in Blocks : tres[i] # NoFrame /\ tres[i].md5 # "none"}

\* C39: in clientAsync1, for every interleaving of task completions, if
\* any upload task returned a response containing md5 then the completion
\* handler is called with an md5-bearing response, one that a task
\* returned: a terminal response found among the tasks collected while the
\* pool is full or among the tasks gathered at the end is never lost.
C39_TerminalResponseNeverLost ==
  (variant = "async1" /\ outcome # "none" /\ ReturnedMd5 # {}) =>
    /\ md5_response \in {tres[i] : i \in ReturnedMd5}
    /\ outcome = Completion(md5_response)
    /\ outcome \in {"verified", "mismatch"}

\* The terminal response was found among the tasks collected while the
\* pool was full: the task that returned it is no longer in upload_tasks
\* when the completion handler is called.
C39_Witness ==
  /\ variant = "async1" /\ outcome # "none"
  /\ \E i \in ReturnedMd5 : i \notin upload_tasks
  /\ md5_response # NoFrame

\* C40: a response whose metadata is the empty object or lacks the status
\* field never advances the protocol, in any client variant: after such a
\* LOGIN response the token is unset and the client is still logging in
\* (or has stopped); after such a SAVE response no upload plan is installed
\* and no UPLOAD is sent; and no block's kept response, nor the terminal
\* response handed to the completion handler, is such a response. In
\* clientSingleThread every block counted as uploaded has a kept response.
C40_BareResponseNeverAdvances ==
  /\ Bare(login_response.status) =>
       token = NoToken /\ mainpc \in {"login", "crashed"}
  /\ Bare(save_response.status) =>
       /\ file_key = "" /\ total_blocks = 0 /\ block_size = 0
       /\ UploadPositions = {}
       /\ mainpc \notin {"transfer", "gather"}
  /\ \A i \in Blocks : tres[i] # NoFrame => ~Bare(tres[i].status)
  /\ md5_response # NoFrame => ~Bare(md5_response.status)
  /\ variant = "single" => \A i \in Blocks : i < cur => tres[i] # NoFrame

\* A block whose request went out twice although no read timed out: the
\* first response was read and lacked the status field (or every field),
\* the block was sent again and the second response acknowledged it.
C40_Witness ==
  /\ bare /\ variant # "single"
  /\ \E i \in Blocks :
       /\ UploadCount(i) = 2 /\ rto[i] = 0
       /\ tres[i] # NoFrame /\ tres[i].status = 200

====
